---- MODULE Spec2Model ----
(***************************************************************************)
(* Light-time solution of tudat (lightTimeSolution.h): the single-leg      *)
(* fixed-point solver LightTimeCalculator and the chain composition        *)
(* MultiLegLightTimeCalculator.                                            *)
(*                                                                         *)
(* Numbers.  ObservationScalarType / TimeType values are modelled in       *)
(* fixed point: one unit of time is one tick and every computed light time *)
(* is rounded to the nearest tick (DivRound), which is the model's image   *)
(* of the finite resolution of the floating-point type.  Positions are     *)
(* one-dimensional (collinear link ends), so the Euclidean norm of the     *)
(* position difference is its absolute value.  C++ indices are kept        *)
(* zero-based; At(s, i) reads element i of a vector.                       *)
(***************************************************************************)
EXTENDS Integers, Sequences, FiniteSets, TLC

\* ------------------------------------------------------------------ bounds
\* Largest number of legs of a chain built in Init.
MaxLegs == 2
\* Largest maximumNumberOfIterations_ a criteria object is built with.
MaxIterations == 2
\* Number of LightTimeCorrectionFunctionWrapper objects, and the largest number
\* of calls of the partial-derivative methods of one of them.
MaxWrappers == 2

MaxCalls == 3

\* --------------------------------------------------------------- constants
\* TUDAT_NAN: the "unset" marker of a time slot or of the tolerance.  It is a
\* value no computation of the model produces.
NaN == -1000
\* physical_constants::getSpeedOfLight, in position units per tick.
SpeedOfLight == 2
\* getDefaultLightTimeTolerance< ScalarType >( ), in ticks.
DefaultLightTimeTolerance == 1

\* The iteration counter is an int that only ever grows; the model stops
\* counting once it is past every value the limit test can compare it with.
CounterCap == MaxIterations + 3

\* ----------------------------------------------------------------- helpers
At(s, i) == s[i + 1]

SetAt(s, i, v) == [s EXCEPT ![i + 1] = v]

Fill(n, v) == [k \in 1..n |-> v]

isnan(x) == x = NaN

fabs(x) == IF x < 0 THEN -x ELSE x

\* a / b for b > 0, rounded to the nearest tick (halves away from zero).
DivRound(a, b) == IF a >= 0 THEN (2 * a + b) \div (2 * b) ELSE -((2 * (-a) + b) \div (2 * b))

RECURSIVE SumSeq(_)
SumSeq(s) == IF Len(s) = 0 THEN 0 ELSE Head(s) + SumSeq(Tail(s))

\* StateType::Constant( TUDAT_NAN )
NaNState == [pos |-> NaN, vel |-> NaN]

\* -------------------------------------------------------------- providers
\* A state provider std::function< StateType( const TimeType ) >: a link end
\* in uniform motion.
StateFunction(fn, t) == [pos |-> fn.p0 + fn.v * t, vel |-> fn.v]

\* LightTimeCorrection::calculateLightTimeCorrection of one provider: a
\* constant, or a correction that grows with the time the signal is under way
\* (half the difference of the two link-end times).
calculateLightTimeCorrection(c, transmitterState, receiverState, transmissionTime, receptionTime) ==
    IF c.kind = "constant" THEN c.value
    ELSE (receptionTime - transmissionTime) \div 2

\* ------------------------------------------- LightTimeCorrectionFunctionWrapper
\* A wrapper object is a record: isWarningProvided_, and for the model's use
\* what it has written to std::cerr and what its partial-derivative methods
\* have returned, call by call.  The methods read none of their arguments.
LightTimeCorrectionFunctionWrapper ==
    [isWarningProvided |-> FALSE, cerr |-> << >>, returned |-> << >>]

PartialWarning == "Warning, light-time partial not yet implemented in LightTimeCorrectionFunctionWrapper."

\* A variant that does not remember that it has warned.
calculateLightTimeCorrectionPartialDerivativeWrtLinkEndPositionForgetful(w) ==
    [w EXCEPT !.cerr = IF ~w.isWarningProvided THEN Append(@, PartialWarning) ELSE @,
              !.returned = Append(@, [method |-> "position", value |-> << 0, 0, 0 >>,
                                      warned |-> ~w.isWarningProvided])]

\* Lines 197-212.
calculateLightTimeCorrectionPartialDerivativeWrtLinkEndTime(w) ==
    [w EXCEPT !.cerr = IF ~w.isWarningProvided THEN Append(@, PartialWarning) ELSE @,
              !.isWarningProvided = TRUE,
              !.returned = Append(@, [method |-> "time", value |-> 0,
                                      warned |-> ~w.isWarningProvided])]

\* Lines 225-239.
calculateLightTimeCorrectionPartialDerivativeWrtLinkEndPosition(w) ==
    [w EXCEPT !.cerr = IF ~w.isWarningProvided THEN Append(@, PartialWarning) ELSE @,
              !.isWarningProvided = TRUE,
              !.returned = Append(@, [method |-> "position", value |-> << 0, 0, 0 >>,
                                      warned |-> ~w.isWarningProvided])]

\* --------------------------------------------------- LightTimeConvergenceCriteria
FailureHandlings == {"accept_without_warning", "print_warning_and_accept", "throw_exception"}

getAbsoluteTolerance(criteria) ==
    IF ~isnan(criteria.absoluteTolerance) THEN criteria.absoluteTolerance
    ELSE DefaultLightTimeTolerance

\* A variant whose tolerance test admits a difference equal to the tolerance.
isLightTimeSolutionConvergedInclusive(criteria, previousLightTimeCalculation, newLightTimeCalculation, numberOfIterations, updateLightTimeCorrections) ==
    LET base == [isToleranceReached |-> FALSE,
                 updateLightTimeCorrections |-> updateLightTimeCorrections,
                 cerr |-> << >>, thrown |-> "none"]
    IN
    IF fabs(newLightTimeCalculation - previousLightTimeCalculation) <= getAbsoluteTolerance(criteria)
    THEN IF ~updateLightTimeCorrections
         THEN [base EXCEPT !.updateLightTimeCorrections = TRUE]
         ELSE [base EXCEPT !.isToleranceReached = TRUE]
    ELSE IF numberOfIterations = criteria.maximumNumberOfIterations
         THEN CASE criteria.failureHandling = "accept_without_warning" ->
                       [base EXCEPT !.isToleranceReached = TRUE]
                [] criteria.failureHandling = "print_warning_and_accept" ->
                       [base EXCEPT !.cerr = << "Warning, light time unconverged" >>]
                [] criteria.failureHandling = "throw_exception" ->
                       [base EXCEPT !.thrown = "Error, light time unconverged"]
                [] OTHER ->
                       [base EXCEPT !.thrown = "Error, did not recognize light ime failure handling"]
         ELSE base

\* A variant whose limit test counts the passes from one.
isLightTimeSolutionConvergedOneBased(criteria, previousLightTimeCalculation, newLightTimeCalculation, numberOfIterations, updateLightTimeCorrections) ==
    LET base == [isToleranceReached |-> FALSE,
                 updateLightTimeCorrections |-> updateLightTimeCorrections,
                 cerr |-> << >>, thrown |-> "none"]
    IN
    IF fabs(newLightTimeCalculation - previousLightTimeCalculation) < getAbsoluteTolerance(criteria)
    THEN IF ~updateLightTimeCorrections
         THEN [base EXCEPT !.updateLightTimeCorrections = TRUE]
         ELSE [base EXCEPT !.isToleranceReached = TRUE]
    ELSE IF numberOfIterations + 1 = criteria.maximumNumberOfIterations
         THEN CASE criteria.failureHandling = "accept_without_warning" ->
                       [base EXCEPT !.isToleranceReached = TRUE]
                [] criteria.failureHandling = "print_warning_and_accept" ->
                       [base EXCEPT !.cerr = << "Warning, light time unconverged" >>]
                [] criteria.failureHandling = "throw_exception" ->
                       [base EXCEPT !.thrown = "Error, light time unconverged"]
                [] OTHER ->
                       [base EXCEPT !.thrown = "Error, did not recognize light ime failure handling"]
         ELSE base

\* A variant that accepts the first pass within the tolerance.
isLightTimeSolutionConvergedAtFirst(criteria, previousLightTimeCalculation, newLightTimeCalculation, numberOfIterations, updateLightTimeCorrections) ==
    LET base == [isToleranceReached |-> FALSE,
                 updateLightTimeCorrections |-> updateLightTimeCorrections,
                 cerr |-> << >>, thrown |-> "none"]
    IN
    IF fabs(newLightTimeCalculation - previousLightTimeCalculation) < getAbsoluteTolerance(criteria)
    THEN [base EXCEPT !.isToleranceReached = TRUE]
    ELSE IF numberOfIterations = criteria.maximumNumberOfIterations
         THEN CASE criteria.failureHandling = "accept_without_warning" ->
                       [base EXCEPT !.isToleranceReached = TRUE]
                [] criteria.failureHandling = "print_warning_and_accept" ->
                       [base EXCEPT !.cerr = << "Warning, light time unconverged" >>]
                [] criteria.failureHandling = "throw_exception" ->
                       [base EXCEPT !.thrown = "Error, light time unconverged"]
                [] OTHER ->
                       [base EXCEPT !.thrown = "Error, did not recognize light ime failure handling"]
         ELSE base

\* A variant whose limit test is >= and whose every failure case accepts.
isLightTimeSolutionConvergedAccepting(criteria, previousLightTimeCalculation, newLightTimeCalculation, numberOfIterations, updateLightTimeCorrections) ==
    LET base == [isToleranceReached |-> FALSE,
                 updateLightTimeCorrections |-> updateLightTimeCorrections,
                 cerr |-> << >>, thrown |-> "none"]
    IN
    IF fabs(newLightTimeCalculation - previousLightTimeCalculation) < getAbsoluteTolerance(criteria)
    THEN IF ~updateLightTimeCorrections
         THEN [base EXCEPT !.updateLightTimeCorrections = TRUE]
         ELSE [base EXCEPT !.isToleranceReached = TRUE]
    ELSE IF numberOfIterations >= criteria.maximumNumberOfIterations
         THEN [base EXCEPT !.isToleranceReached = TRUE]
         ELSE base

\* isLightTimeSolutionConverged: the returned flag, the updated by-reference
\* updateLightTimeCorrections, what is written to std::cerr and whether the
\* call throws.
isLightTimeSolutionConverged(criteria, previousLightTimeCalculation, newLightTimeCalculation, numberOfIterations, updateLightTimeCorrections) ==
    LET base == [isToleranceReached |-> FALSE,
                 updateLightTimeCorrections |-> updateLightTimeCorrections,
                 cerr |-> << >>, thrown |-> "none"]
    IN
    IF fabs(newLightTimeCalculation - previousLightTimeCalculation) < getAbsoluteTolerance(criteria)
    THEN IF ~updateLightTimeCorrections
         THEN [base EXCEPT !.updateLightTimeCorrections = TRUE]
         ELSE [base EXCEPT !.isToleranceReached = TRUE]
    ELSE IF numberOfIterations = criteria.maximumNumberOfIterations
         THEN CASE criteria.failureHandling = "accept_without_warning" ->
                       [base EXCEPT !.isToleranceReached = TRUE]
                [] criteria.failureHandling = "print_warning_and_accept" ->
                       [base EXCEPT !.cerr = << "Warning, light time unconverged" >>]
                [] criteria.failureHandling = "throw_exception" ->
                       [base EXCEPT !.thrown = "Error, light time unconverged"]
                [] OTHER ->
                       [base EXCEPT !.thrown = "Error, did not recognize light ime failure handling"]
         ELSE base

\* ---------------------------------------------------------- LightTimeCalculator
\* A calculator object is a record: the two state functions, the list of
\* correction providers, the criteria and the two cached values.

\* A variant that keeps the value of the last provider only.
setTotalLightTimeCorrectionOfLast(calc, transmitterState, receiverState, transmissionTime, receptionTime) ==
    [calc EXCEPT !.currentCorrection =
        IF Len(calc.correctionFunctions) = 0 THEN 0
        ELSE calculateLightTimeCorrection(calc.correctionFunctions[Len(calc.correctionFunctions)],
                 transmitterState, receiverState, transmissionTime, receptionTime)]

\* Lines 620-634: the sum of the providers' values is cached.
setTotalLightTimeCorrection(calc, transmitterState, receiverState, transmissionTime, receptionTime) ==
    [calc EXCEPT !.currentCorrection =
        SumSeq([i \in 1..Len(calc.correctionFunctions) |->
                   calculateLightTimeCorrection(calc.correctionFunctions[i],
                       transmitterState, receiverState, transmissionTime, receptionTime)])]

\* A variant that returns the estimate without caching the ideal light time.
calculateNewLightTimeEstimateUncached(calc, receiverState, transmitterState) ==
    LET ideal == DivRound(fabs(receiverState.pos - transmitterState.pos), SpeedOfLight)
    IN [calc |-> calc, value |-> ideal + calc.currentCorrection]

\* A variant that takes the distance itself for the ideal light time.
calculateNewLightTimeEstimateUndivided(calc, receiverState, transmitterState) ==
    LET ideal == fabs(receiverState.pos - transmitterState.pos)
    IN [calc |-> [calc EXCEPT !.currentIdealLightTime = ideal],
        value |-> ideal + calc.currentCorrection]

\* Lines 601-609: the new estimate and the calculator with
\* currentIdealLightTime_ written.
calculateNewLightTimeEstimate(calc, receiverState, transmitterState) ==
    LET ideal == DivRound(fabs(receiverState.pos - transmitterState.pos), SpeedOfLight)
    IN [calc |-> [calc EXCEPT !.currentIdealLightTime = ideal],
        value |-> ideal + calc.currentCorrection]

\* The frame of no running single-leg solve.
NoLeg ==
    [pc |-> "idle", calculator |-> 0, time |-> 0, isTimeAtReception |-> FALSE,
     multiLegTransmitterIndex |-> 0,
     receptionTime |-> 0, transmissionTime |-> 0,
     receiverState |-> NaNState, transmitterState |-> NaNState,
     previousLightTimeCalculation |-> 0, newLightTimeCalculation |-> 0,
     isToleranceReached |-> FALSE, counter |-> 0,
     updateLightTimeCorrections |-> FALSE, warmStarted |-> FALSE]

\* A variant that takes the guess when either of the two slots is set.
LegEnterOnEitherGuess(calc, k, linkEndsStates, linkEndsTimes, time, isTimeAtReception, multiLegTransmitterIndex) ==
    LET multiLegReceiverIndex == multiLegTransmitterIndex + 1
    IN
    IF Len(linkEndsStates) # Len(linkEndsTimes) \/ multiLegReceiverIndex > Len(linkEndsTimes) - 1
    THEN [calc |-> calc, frame |-> NoLeg, thrown |-> "Error, size of state and time vectors is inconsistent"]
    ELSE
    LET warm == ~isnan(At(linkEndsTimes, multiLegTransmitterIndex))
                    \/ ~isnan(At(linkEndsTimes, multiLegReceiverIndex))
        receptionTime == IF warm THEN At(linkEndsTimes, multiLegReceiverIndex) ELSE time
        transmissionTime == IF warm THEN At(linkEndsTimes, multiLegTransmitterIndex) ELSE time
        receiverState == StateFunction(calc.stateFunctionOfReceivingBody, receptionTime)
        transmitterState == StateFunction(calc.stateFunctionOfTransmittingBody, transmissionTime)
        calc1 == setTotalLightTimeCorrection(calc, transmitterState, receiverState,
                                             transmissionTime, receptionTime)
        est == calculateNewLightTimeEstimate(calc1, receiverState, transmitterState)
    IN [calc |-> est.calc,
        frame |-> [pc |-> "loop", calculator |-> k, time |-> time,
                   isTimeAtReception |-> isTimeAtReception,
                   multiLegTransmitterIndex |-> multiLegTransmitterIndex,
                   receptionTime |-> receptionTime, transmissionTime |-> transmissionTime,
                   receiverState |-> receiverState, transmitterState |-> transmitterState,
                   previousLightTimeCalculation |-> est.value,
                   newLightTimeCalculation |-> 0,
                   isToleranceReached |-> FALSE, counter |-> 0,
                   updateLightTimeCorrections |-> calc.lightTimeConvergenceCriteria.iterateCorrections,
                   warmStarted |-> warm],
        thrown |-> "none"]

\* calculateLightTimeWithMultiLegLinkEndsStates up to the loop: the size
\* check, the initial guess, the initial correction and the first estimate.
LegEnter(calc, k, linkEndsStates, linkEndsTimes, time, isTimeAtReception, multiLegTransmitterIndex) ==
    LET multiLegReceiverIndex == multiLegTransmitterIndex + 1
    IN
    IF Len(linkEndsStates) # Len(linkEndsTimes) \/ multiLegReceiverIndex > Len(linkEndsTimes) - 1
    THEN [calc |-> calc, frame |-> NoLeg, thrown |-> "Error, size of state and time vectors is inconsistent"]
    ELSE
    LET warm == ~isnan(At(linkEndsTimes, multiLegTransmitterIndex))
                    /\ ~isnan(At(linkEndsTimes, multiLegReceiverIndex))
        receptionTime == IF warm THEN At(linkEndsTimes, multiLegReceiverIndex) ELSE time
        transmissionTime == IF warm THEN At(linkEndsTimes, multiLegTransmitterIndex) ELSE time
        receiverState == StateFunction(calc.stateFunctionOfReceivingBody, receptionTime)
        transmitterState == StateFunction(calc.stateFunctionOfTransmittingBody, transmissionTime)
        calc1 == setTotalLightTimeCorrection(calc, transmitterState, receiverState,
                                             transmissionTime, receptionTime)
        est == calculateNewLightTimeEstimate(calc1, receiverState, transmitterState)
    IN [calc |-> est.calc,
        frame |-> [pc |-> "loop", calculator |-> k, time |-> time,
                   isTimeAtReception |-> isTimeAtReception,
                   multiLegTransmitterIndex |-> multiLegTransmitterIndex,
                   receptionTime |-> receptionTime, transmissionTime |-> transmissionTime,
                   receiverState |-> receiverState, transmitterState |-> transmitterState,
                   previousLightTimeCalculation |-> est.value,
                   newLightTimeCalculation |-> 0,
                   isToleranceReached |-> FALSE, counter |-> 0,
                   updateLightTimeCorrections |-> calc.lightTimeConvergenceCriteria.iterateCorrections,
                   warmStarted |-> warm],
        thrown |-> "none"]

\* A variant that keeps the refresh flag in the criteria object.
LegPassStoringRefresh(calc, f) ==
    LET calc1 == IF f.updateLightTimeCorrections
                 THEN setTotalLightTimeCorrection(calc, f.transmitterState, f.receiverState,
                                                  f.transmissionTime, f.receptionTime)
                 ELSE calc
        receptionTime == IF f.isTimeAtReception THEN f.time
                         ELSE f.time + f.previousLightTimeCalculation
        transmissionTime == IF f.isTimeAtReception THEN f.time - f.previousLightTimeCalculation
                            ELSE f.time
        transmitterState == IF f.isTimeAtReception
                            THEN StateFunction(calc.stateFunctionOfTransmittingBody, transmissionTime)
                            ELSE f.transmitterState
        receiverState == IF f.isTimeAtReception THEN f.receiverState
                         ELSE StateFunction(calc.stateFunctionOfReceivingBody, receptionTime)
        est == calculateNewLightTimeEstimate(calc1, receiverState, transmitterState)
        conv == isLightTimeSolutionConverged(calc.lightTimeConvergenceCriteria,
                    f.previousLightTimeCalculation, est.value, f.counter,
                    f.updateLightTimeCorrections)
    IN [calc |-> [est.calc EXCEPT !.lightTimeConvergenceCriteria.iterateCorrections =
                                      conv.updateLightTimeCorrections],
        frame |-> [f EXCEPT !.receptionTime = receptionTime,
                            !.transmissionTime = transmissionTime,
                            !.receiverState = receiverState,
                            !.transmitterState = transmitterState,
                            !.newLightTimeCalculation = est.value,
                            !.isToleranceReached = conv.isToleranceReached,
                            !.updateLightTimeCorrections = conv.updateLightTimeCorrections,
                            !.previousLightTimeCalculation = est.value,
                            !.counter = IF f.counter < CounterCap THEN f.counter + 1 ELSE f.counter],
        cerr |-> conv.cerr,
        thrown |-> conv.thrown]

\* One pass of the while( !isToleranceReached ) loop.
LegPass(calc, f) ==
    LET calc1 == IF f.updateLightTimeCorrections
                 THEN setTotalLightTimeCorrection(calc, f.transmitterState, f.receiverState,
                                                  f.transmissionTime, f.receptionTime)
                 ELSE calc
        receptionTime == IF f.isTimeAtReception THEN f.time
                         ELSE f.time + f.previousLightTimeCalculation
        transmissionTime == IF f.isTimeAtReception THEN f.time - f.previousLightTimeCalculation
                            ELSE f.time
        transmitterState == IF f.isTimeAtReception
                            THEN StateFunction(calc.stateFunctionOfTransmittingBody, transmissionTime)
                            ELSE f.transmitterState
        receiverState == IF f.isTimeAtReception THEN f.receiverState
                         ELSE StateFunction(calc.stateFunctionOfReceivingBody, receptionTime)
        est == calculateNewLightTimeEstimate(calc1, receiverState, transmitterState)
        conv == isLightTimeSolutionConverged(calc.lightTimeConvergenceCriteria,
                    f.previousLightTimeCalculation, est.value, f.counter,
                    f.updateLightTimeCorrections)
    IN [calc |-> est.calc,
        frame |-> [f EXCEPT !.receptionTime = receptionTime,
                            !.transmissionTime = transmissionTime,
                            !.receiverState = receiverState,
                            !.transmitterState = transmitterState,
                            !.newLightTimeCalculation = est.value,
                            !.isToleranceReached = conv.isToleranceReached,
                            !.updateLightTimeCorrections = conv.updateLightTimeCorrections,
                            !.previousLightTimeCalculation = est.value,
                            !.counter = IF f.counter < CounterCap THEN f.counter + 1 ELSE f.counter],
        cerr |-> conv.cerr,
        thrown |-> conv.thrown]

\* A variant that writes the time of the free end from the returned light time.
LegExitAtReturnedLightTime(f, linkEndsStates, linkEndsTimes) ==
    LET receptionTime == IF f.isTimeAtReception THEN f.time ELSE f.time + f.newLightTimeCalculation
        transmissionTime == IF f.isTimeAtReception THEN f.time - f.newLightTimeCalculation ELSE f.time
    IN [linkEndsTimes |-> SetAt(SetAt(linkEndsTimes, f.multiLegTransmitterIndex + 1, receptionTime),
                                f.multiLegTransmitterIndex, transmissionTime),
        linkEndsStates |-> SetAt(SetAt(linkEndsStates, f.multiLegTransmitterIndex + 1, f.receiverState),
                                 f.multiLegTransmitterIndex, f.transmitterState),
        cerr |-> << "Light time: " >>,
        value |-> f.newLightTimeCalculation]

\* After the loop: the output slots are written and the light time returned.
LegExit(f, linkEndsStates, linkEndsTimes) ==
    [linkEndsTimes |-> SetAt(SetAt(linkEndsTimes, f.multiLegTransmitterIndex + 1, f.receptionTime),
                             f.multiLegTransmitterIndex, f.transmissionTime),
     linkEndsStates |-> SetAt(SetAt(linkEndsStates, f.multiLegTransmitterIndex + 1, f.receiverState),
                              f.multiLegTransmitterIndex, f.transmitterState),
     cerr |-> << "Light time: " >>,
     value |-> f.newLightTimeCalculation]


\* Fuel-bounded closure of the loop: the frame a solve that starts at f ends
\* at, by repeating LegPass while the loop condition holds.  "finished" is
\* FALSE when the loop is still running after `fuel` passes.
RECURSIVE LegRun(_, _, _)
LegRun(calc, f, fuel) ==
    IF f.isToleranceReached
    THEN [calc |-> calc, frame |-> f, thrown |-> "none", finished |-> TRUE]
    ELSE IF fuel = 0
    THEN [calc |-> calc, frame |-> f, thrown |-> "none", finished |-> FALSE]
    ELSE LET r == LegPass(calc, f)
         IN IF r.thrown # "none"
            THEN [calc |-> r.calc, frame |-> r.frame, thrown |-> r.thrown, finished |-> TRUE]
            ELSE LegRun(r.calc, r.frame, fuel - 1)

\* LightTimeCalculator::calculateLightTimeWithLinkEndsStates on a calculator
\* of its own: the whole cold-started solve of one leg.
calculateLightTimeWithLinkEndsStates(calc, time, isTimeAtReception) ==
    LET e == LegEnter(calc, 0, Fill(2, NaNState), Fill(2, NaN), time, isTimeAtReception, 0)
        r == LegRun(e.calc, e.frame, 2 * CounterCap)
    IN [returned |-> r.finished /\ r.thrown = "none",
        thrown |-> r.thrown,
        lightTime |-> r.frame.newLightTimeCalculation,
        frame |-> r.frame, calc |-> r.calc]

\* -------------------------------------------------- MultiLegLightTimeCalculator
\* The frame of the function that called the running leg solve: the locals of
\* MultiLegLightTimeCalculator::calculateLightTimeWithLinkEndsStates (or, for
\* the two-state single-leg entry point, its two local vectors).
NoCaller ==
    [time |-> 0, startLinkEndIndex |-> 0, currentRetransmissionDelays |-> << >>,
     linkEndsTimes |-> << >>, linkEndsStates |-> << >>,
     totalLightTime |-> 0, currentLightTime |-> 0,
     currentLinkEndReceptionTime |-> 0, currentLinkEndTransmissionTime |-> 0,
     currentDownIndex |-> 0, currentUpIndex |-> 0]

\* unsigned int arithmetic of numberOfLinkEnds_ - 2: below zero it wraps to a
\* value near 2^32, above the size of every vector (here the largest integer
\* the checker represents stands for it).
UnsignedMinus(a, b) == IF a >= b THEN a - b ELSE 2147483647

\* A variant that takes a vector of any other length for no delays.
NormalizeDelaysLenient(ancillarySettings, nLinkEnds) ==
    IF ~ancillarySettings.isNull
    THEN LET d == ancillarySettings.retransmissionDelays
         IN IF Len(d) = nLinkEnds
            THEN [thrown |-> "none", delays |-> d]
            ELSE IF Len(d) = UnsignedMinus(nLinkEnds, 2)
            THEN [thrown |-> "none", delays |-> << 0 >> \o d \o << 0 >>]
            ELSE [thrown |-> "none", delays |-> Fill(nLinkEnds, 0)]
    ELSE [thrown |-> "none", delays |-> Fill(nLinkEnds, 0)]

\* A variant that appends both zeros to a vector of the shorter length.
NormalizeDelaysPaddingBack(ancillarySettings, nLinkEnds) ==
    IF ~ancillarySettings.isNull
    THEN LET d == ancillarySettings.retransmissionDelays
         IN IF Len(d) = nLinkEnds
            THEN [thrown |-> "none", delays |-> d]
            ELSE IF Len(d) = UnsignedMinus(nLinkEnds, 2)
            THEN [thrown |-> "none", delays |-> d \o << 0, 0 >>]
            ELSE [thrown |-> "Error, size of retransmission delays is invalid", delays |-> d]
    ELSE [thrown |-> "none", delays |-> Fill(nLinkEnds, 0)]

\* Lines 664-692: the delay vector the solve works with, or the length error.
\* ancillarySettings is a record: isNull, and the vector stored under the key
\* retransmission_delays.
NormalizeDelays(ancillarySettings, nLinkEnds) ==
    IF ~ancillarySettings.isNull
    THEN LET d == ancillarySettings.retransmissionDelays
         IN IF Len(d) = nLinkEnds
            THEN [thrown |-> "none", delays |-> d]
            ELSE IF Len(d) = UnsignedMinus(nLinkEnds, 2)
            THEN [thrown |-> "none", delays |-> << 0 >> \o d \o << 0 >>]
            ELSE [thrown |-> "Error, size of retransmission delays is invalid", delays |-> d]
    ELSE [thrown |-> "none", delays |-> Fill(nLinkEnds, 0)]

\* A variant that exempts only the first link end.
ReferenceDelayErrorButFirst(delays, startLinkEndIndex, nLinkEnds) ==
    /\ startLinkEndIndex # 0
    /\ At(delays, startLinkEndIndex) # 0

\* Lines 705-715: the check of the delay at the reference link end.
ReferenceDelayError(delays, startLinkEndIndex, nLinkEnds) ==
    /\ startLinkEndIndex # 0
    /\ startLinkEndIndex # nLinkEnds - 1
    /\ At(delays, startLinkEndIndex) # 0


\* A variant that adds the delay of the leg's downstream node.
BackwardAccumulateDownstreamDelay(c, x) ==
    LET currentLightTime == x.value + At(c.currentRetransmissionDelays, c.currentDownIndex)
    IN [c EXCEPT !.linkEndsTimes = x.linkEndsTimes,
                 !.linkEndsStates = x.linkEndsStates,
                 !.currentLightTime = currentLightTime,
                 !.currentLinkEndReceptionTime = @ - currentLightTime,
                 !.totalLightTime = @ + currentLightTime,
                 !.currentDownIndex = @ - 1]

\* Lines 727-735 after the leg's return: the leg's outputs are in the local
\* vectors, the delay of the leg's transmitter is added, the reception time of
\* the next leg and the total follow.
BackwardAccumulate(c, x) ==
    LET currentLightTime == x.value + At(c.currentRetransmissionDelays, c.currentDownIndex - 1)
    IN [c EXCEPT !.linkEndsTimes = x.linkEndsTimes,
                 !.linkEndsStates = x.linkEndsStates,
                 !.currentLightTime = currentLightTime,
                 !.currentLinkEndReceptionTime = @ - currentLightTime,
                 !.totalLightTime = @ + currentLightTime,
                 !.currentDownIndex = @ - 1]

\* A variant that hands the junction time to the next leg as its guess.
ForwardAccumulateSeedingNext(c, x) ==
    LET currentLightTime == x.value + At(c.currentRetransmissionDelays, c.currentUpIndex + 1)
        next == 2 * (c.currentUpIndex + 1)
        seeded == IF next + 1 < Len(x.linkEndsTimes)
                  THEN SetAt(SetAt(x.linkEndsTimes, next, c.currentLinkEndTransmissionTime + currentLightTime),
                             next + 1, c.currentLinkEndTransmissionTime + currentLightTime)
                  ELSE x.linkEndsTimes
    IN [c EXCEPT !.linkEndsTimes = seeded,
                 !.linkEndsStates = x.linkEndsStates,
                 !.currentLightTime = currentLightTime,
                 !.currentLinkEndTransmissionTime = @ + currentLightTime,
                 !.totalLightTime = @ + currentLightTime,
                 !.currentUpIndex = @ + 1]

\* A variant that leaves the leg out of the total.
ForwardAccumulateTimesOnly(c, x) ==
    LET currentLightTime == x.value + At(c.currentRetransmissionDelays, c.currentUpIndex + 1)
    IN [c EXCEPT !.linkEndsTimes = x.linkEndsTimes,
                 !.linkEndsStates = x.linkEndsStates,
                 !.currentLightTime = currentLightTime,
                 !.currentLinkEndTransmissionTime = @ + currentLightTime,
                 !.currentUpIndex = @ + 1]

\* Lines 745-753 after the leg's return.
ForwardAccumulate(c, x) ==
    LET currentLightTime == x.value + At(c.currentRetransmissionDelays, c.currentUpIndex + 1)
    IN [c EXCEPT !.linkEndsTimes = x.linkEndsTimes,
                 !.linkEndsStates = x.linkEndsStates,
                 !.currentLightTime = currentLightTime,
                 !.currentLinkEndTransmissionTime = @ + currentLightTime,
                 !.totalLightTime = @ + currentLightTime,
                 !.currentUpIndex = @ + 1]

\* ------------------------------------------------------------------- state
VARIABLES
    lightTimeCalculators,   \* lightTimeCalculators_: the chain's leg calculators, in leg order
    numberOfLinks,          \* numberOfLinks_
    numberOfLinkEnds,       \* numberOfLinkEnds_
    multiLegConvergenceCriteria, \* lightTimeConvergenceCriteria_ of MultiLegLightTimeCalculator
    pc,                     \* where the caller of the solver is
    caller,                 \* locals of the running multi-leg (or two-state single-leg) solve
    leg,                    \* locals of the running calculateLightTimeWithMultiLegLinkEndsStates
    linkEndsTimesOutput,    \* by-reference output of the multi-leg solve
    linkEndsStatesOutput,   \* by-reference output of the multi-leg solve
    transmitterStateOutput, \* by-reference output of the two-state single-leg solve
    receiverStateOutput,    \* by-reference output of the two-state single-leg solve
    cerr,                   \* what the running call has written to std::cerr
    result,                 \* how the call ended: returned value or exception
    call,                   \* the call's arguments and the objects as they were when it began
    solved,                 \* the leg solves that returned during the call, in order
    wrappers,               \* the LightTimeCorrectionFunctionWrapper objects and what each has done
    threads                 \* the solves that run concurrently, one per thread

vars == << lightTimeCalculators, numberOfLinks, numberOfLinkEnds, multiLegConvergenceCriteria,
           pc, caller, leg,
           linkEndsTimesOutput, linkEndsStatesOutput, transmitterStateOutput,
           receiverStateOutput, cerr, result, call, solved, wrappers, threads >>

\* ------------------------------------------------------------ configurations
Times == {0, 1}

RestingTransmitter == [p0 |-> 0, v |-> 0]

RestingReceiver == [p0 |-> 4, v |-> 0]

MovingTransmitter == [p0 |-> 0, v |-> -1]

MovingReceiver == [p0 |-> 2, v |-> 1]

ConstantCorrection(a) == [kind |-> "constant", value |-> a]

PathCorrection == [kind |-> "path", value |-> 0]

\* The value currentIdealLightTime_ holds before the first estimate: the
\* constructors do not initialise it.
Indeterminate == -2000

\* The constructor of LightTimeConvergenceCriteria.
LightTimeConvergenceCriteria(iterateCorrections, maximumNumberOfIterations, absoluteTolerance, failureHandling) ==
    [iterateCorrections |-> iterateCorrections,
     maximumNumberOfIterations |-> maximumNumberOfIterations,
     failureHandling |-> failureHandling,
     absoluteTolerance |-> absoluteTolerance]

\* The constructor of LightTimeCalculator.
LightTimeCalculator(positionFunctionOfTransmittingBody, positionFunctionOfReceivingBody, correctionFunctions, lightTimeConvergenceCriteria) ==
    [stateFunctionOfTransmittingBody |-> positionFunctionOfTransmittingBody,
     stateFunctionOfReceivingBody |-> positionFunctionOfReceivingBody,
     correctionFunctions |-> correctionFunctions,
     lightTimeConvergenceCriteria |-> lightTimeConvergenceCriteria,
     currentIdealLightTime |-> Indeterminate,
     currentCorrection |-> 0]

Tolerances == {NaN, 0, 2}

AllCriteria ==
    { LightTimeConvergenceCriteria(it, mx, tol, fh) :
        it \in BOOLEAN, mx \in 0..MaxIterations, tol \in Tolerances, fh \in FailureHandlings }

\* Link ends and corrections of one leg: resting or moving ends, and no, one,
\* two constant or a path-dependent correction.
LegLinks ==
    { << RestingTransmitter, RestingReceiver, << >> >>,
      << RestingTransmitter, RestingReceiver, << ConstantCorrection(1), ConstantCorrection(2) >> >>,
      << RestingTransmitter, RestingReceiver, << PathCorrection >> >>,
      << MovingTransmitter, MovingReceiver, << >> >>,
      << MovingTransmitter, MovingReceiver, << ConstantCorrection(1) >> >> }

\* Every calculator of the single-leg specification.
SingleLegCalculators ==
    { LightTimeCalculator(l[1], l[2], l[3], c) : l \in LegLinks, c \in AllCriteria }

\* The calculators a chain is built from.
RestingLeg ==
    LightTimeCalculator(RestingTransmitter, RestingReceiver, << ConstantCorrection(1) >>,
        LightTimeConvergenceCriteria(FALSE, MaxIterations, NaN, "accept_without_warning"))

ChainLegCalculators ==
    { RestingLeg,
      LightTimeCalculator(RestingTransmitter, RestingReceiver, << PathCorrection >>,
          LightTimeConvergenceCriteria(FALSE, MaxIterations, NaN, "accept_without_warning")),
      LightTimeCalculator(MovingTransmitter, MovingReceiver, << >>,
          LightTimeConvergenceCriteria(TRUE, MaxIterations, 2, "accept_without_warning")),
      LightTimeCalculator(MovingTransmitter, MovingReceiver, << >>,
          LightTimeConvergenceCriteria(TRUE, 1, NaN, "throw_exception")),
      LightTimeCalculator(MovingTransmitter, MovingReceiver, << >>,
          LightTimeConvergenceCriteria(TRUE, 0, NaN, "accept_without_warning")),
      LightTimeCalculator(RestingTransmitter, RestingReceiver, << PathCorrection >>,
          LightTimeConvergenceCriteria(FALSE, 0, 0, "print_warning_and_accept")) }

\* The chains of n legs: resting legs, one of which is any chain calculator.
Chains(n) ==
    { [i \in 1..n |-> IF i = at THEN c ELSE RestingLeg] : at \in 1..n, c \in ChainLegCalculators }

\* The retransmission delay vectors a caller supplies to a chain of n legs:
\* of every length up to n + 2 the vector of ones and, of the two accepted
\* lengths, also the vector of zeros and every vector with a single one.
UnitVector(len, i) == [k \in 1..len |-> IF k = i THEN 1 ELSE 0]

Vectors(len) == {Fill(len, 0)} \cup { UnitVector(len, i) : i \in 1..len }

DelayVectors(n) ==
    Vectors(n + 1) \cup (IF n >= 1 THEN Vectors(n - 1) ELSE {})
        \cup { Fill(len, 1) : len \in 0..(n + 2) }

NoAncillarySettings == [isNull |-> TRUE, retransmissionDelays |-> << >>]

AncillarySettings(n) ==
    {NoAncillarySettings} \cup { [isNull |-> FALSE, retransmissionDelays |-> d] : d \in DelayVectors(n) }

\* The pairs of link-end times (transmission, reception) a caller of
\* calculateLightTimeWithMultiLegLinkEndsStates supplies as an initial guess:
\* both slots set, or one of them left unset.
GuessedTimes == { << -2, 0 >>, << 1, 3 >>, << NaN, 3 >>, << 1, NaN >> }

\* What the caller's output vectors hold when it calls: the entries of an
\* earlier use.
StaleTimes == << 7 >>

StaleStates == << [pos |-> 7, vel |-> 7] >>

NoResult == [outcome |-> "none", value |-> 0, what |-> "none"]

NoCall == [kind |-> "none", time |-> 0, startLinkEndIndex |-> 0, isTimeAtReception |-> FALSE,
           calculator |-> 0, ancillarySettings |-> NoAncillarySettings,
           calculatorsBefore |-> << >>, timesBefore |-> << >>, statesBefore |-> << >>,
           providersEvaluated |-> FALSE]

\* ------------------------------------------------------------------- Init
\* The criteria MultiLegLightTimeCalculator's constructor takes when it is
\* given none, and criteria unlike those of every leg of a chain.
DefaultCriteria == LightTimeConvergenceCriteria(FALSE, 50, NaN, "accept_without_warning")

StrictCriteria == LightTimeConvergenceCriteria(TRUE, 0, 0, "throw_exception")

\* MultiLegLightTimeCalculator's constructor on a list of calculators and a
\* criteria object.
Constructed(calculators, lightTimeConvergenceCriteria) ==
    /\ lightTimeCalculators = calculators
    /\ multiLegConvergenceCriteria = lightTimeConvergenceCriteria
    /\ numberOfLinks = Len(calculators)
    /\ numberOfLinkEnds = Len(calculators) + 1
    /\ pc = "idle"
    /\ caller = NoCaller
    /\ leg = NoLeg
    /\ linkEndsTimesOutput = << >>
    /\ linkEndsStatesOutput = << >>
    /\ transmitterStateOutput = NaNState
    /\ receiverStateOutput = NaNState
    /\ cerr = << >>
    /\ result = NoResult
    /\ call = NoCall
    /\ solved = << >>

\* One leg, any calculator.
InitLeg ==
    /\ \E c \in SingleLegCalculators : Constructed(<< c >>, DefaultCriteria)
    /\ wrappers = << >>
    /\ threads = << >>

\* A chain of 1..MaxLegs legs.
Init ==
    /\ \E n \in 1..MaxLegs : \E cs \in Chains(n) : Constructed(cs, DefaultCriteria)
    /\ wrappers = << >>
    /\ threads = << >>


\* ----------------------------------------------------------------- actions
Calculator(k) == At(lightTimeCalculators, k)

\* An exception leaves the solver: every frame is unwound, the caller's
\* by-reference arguments are as they are.
Throw(what) ==
    /\ pc' = "threw"
    /\ result' = [outcome |-> "threw", value |-> 0, what |-> what]
    /\ caller' = NoCaller
    /\ leg' = NoLeg

\* A variant in which a leg is solved under the criteria of the chain.
InvokeLegUnderChainCriteria(k, time, isTimeAtReception, multiLegTransmitterIndex, callerFrame, at) ==
    LET e == LegEnter([Calculator(k) EXCEPT !.lightTimeConvergenceCriteria = multiLegConvergenceCriteria],
                      k, callerFrame.linkEndsStates, callerFrame.linkEndsTimes,
                      time, isTimeAtReception, multiLegTransmitterIndex)
    IN /\ lightTimeCalculators' = SetAt(lightTimeCalculators, k, e.calc)
       /\ leg' = e.frame
       /\ caller' = callerFrame
       /\ pc' = at
       /\ call' = [call EXCEPT !.providersEvaluated = TRUE]
       /\ UNCHANGED result

\* The caller invokes a leg's calculateLightTimeWithMultiLegLinkEndsStates on
\* its local vectors: the solve runs up to its loop.
InvokeLeg(k, time, isTimeAtReception, multiLegTransmitterIndex, callerFrame, at) ==
    LET e == LegEnter(Calculator(k), k, callerFrame.linkEndsStates, callerFrame.linkEndsTimes,
                      time, isTimeAtReception, multiLegTransmitterIndex)
    IN IF e.thrown # "none"
       THEN /\ Throw(e.thrown)
            /\ UNCHANGED << lightTimeCalculators, call >>
       ELSE /\ lightTimeCalculators' = SetAt(lightTimeCalculators, k, e.calc)
            /\ leg' = e.frame
            /\ caller' = callerFrame
            /\ pc' = at
            /\ call' = [call EXCEPT !.providersEvaluated = TRUE]
            /\ UNCHANGED result

\* MultiLegLightTimeCalculator::calculateLightTimeWithLinkEndsStates, lines
\* 664-721: delays, local vectors, reference index, the two checks, the start
\* of the walk.  timesArg and statesArg are what the caller's vectors hold at
\* the call, timesOnEntry and statesOnEntry what they hold once these lines
\* have run.
MultiLegEntry(time, startLinkEndIndex, ancillarySettings, timesArg, statesArg, timesOnEntry, statesOnEntry) ==
    /\ pc = "idle"
    /\ linkEndsTimesOutput' = timesOnEntry
    /\ linkEndsStatesOutput' = statesOnEntry
    /\ call' = [NoCall EXCEPT !.kind = "multi", !.time = time,
                              !.startLinkEndIndex = startLinkEndIndex,
                              !.ancillarySettings = ancillarySettings,
                              !.calculatorsBefore = lightTimeCalculators,
                              !.timesBefore = timesArg, !.statesBefore = statesArg]
    /\ cerr' = << >>
    /\ solved' = << >>
    /\ LET n == NormalizeDelays(ancillarySettings, numberOfLinkEnds)
       IN IF n.thrown # "none"
          THEN Throw(n.thrown)
          ELSE IF ReferenceDelayError(n.delays, startLinkEndIndex, numberOfLinkEnds)
          THEN Throw("Error, non-zero retransmission delay at the reference link end")
          ELSE /\ caller' = [NoCaller EXCEPT
                     !.time = time,
                     !.startLinkEndIndex = startLinkEndIndex,
                     !.currentRetransmissionDelays = n.delays,
                     !.linkEndsTimes = Fill(2 * numberOfLinks, NaN),
                     !.linkEndsStates = Fill(2 * numberOfLinks, NaNState),
                     !.totalLightTime = At(n.delays, startLinkEndIndex),
                     !.currentLinkEndReceptionTime = time - At(n.delays, startLinkEndIndex),
                     !.currentDownIndex = startLinkEndIndex]
               /\ pc' = "backward"
               /\ UNCHANGED << leg, result >>
    /\ UNCHANGED << lightTimeCalculators, numberOfLinks, numberOfLinkEnds, multiLegConvergenceCriteria, wrappers, threads,
                    transmitterStateOutput, receiverStateOutput >>

\* A variant that clears the output vectors before the checks.
MultiLegCallClearingOutputs(time, startLinkEndIndex, ancillarySettings, timesArg, statesArg) ==
    MultiLegEntry(time, startLinkEndIndex, ancillarySettings, timesArg, statesArg, << >>, << >>)

\* The outputs are only written at the end (lines 756-767).
MultiLegCall(time, startLinkEndIndex, ancillarySettings, timesArg, statesArg) ==
    MultiLegEntry(time, startLinkEndIndex, ancillarySettings, timesArg, statesArg, timesArg, statesArg)

\* Lines 724-728: the next leg towards the transmitter is invoked.
BackwardLegCall ==
    /\ pc = "backward" /\ leg.pc = "idle"
    /\ caller.currentDownIndex > 0
    /\ InvokeLeg(caller.currentDownIndex - 1, caller.currentLinkEndReceptionTime, TRUE,
                 2 * (caller.currentDownIndex - 1), caller, "backward")
    /\ UNCHANGED << numberOfLinks, numberOfLinkEnds, multiLegConvergenceCriteria, wrappers, threads, linkEndsTimesOutput, linkEndsStatesOutput,
                    transmitterStateOutput, receiverStateOutput, cerr, solved >>

\* A variant in which the caller of the leg takes a raise for a return.
LegIterateAbsorbing ==
    /\ leg.pc = "loop" /\ ~leg.isToleranceReached
    /\ LET r == LegPass(Calculator(leg.calculator), leg)
       IN /\ lightTimeCalculators' = SetAt(lightTimeCalculators, leg.calculator, r.calc)
          /\ cerr' = cerr \o r.cerr
          /\ leg' = IF r.thrown # "none" THEN [r.frame EXCEPT !.isToleranceReached = TRUE]
                    ELSE r.frame
          /\ UNCHANGED << pc, result, caller >>
    /\ UNCHANGED << numberOfLinks, numberOfLinkEnds, multiLegConvergenceCriteria, wrappers, threads, linkEndsTimesOutput, linkEndsStatesOutput,
                    transmitterStateOutput, receiverStateOutput, call, solved >>

\* One pass of the running leg solve's loop (lines 463-492).
LegIterate ==
    /\ leg.pc = "loop" /\ ~leg.isToleranceReached
    /\ LET r == LegPass(Calculator(leg.calculator), leg)
       IN /\ lightTimeCalculators' = SetAt(lightTimeCalculators, leg.calculator, r.calc)
          /\ cerr' = cerr \o r.cerr
          /\ IF r.thrown # "none"
             THEN Throw(r.thrown)
             ELSE /\ leg' = r.frame
                  /\ UNCHANGED << pc, result, caller >>
    /\ UNCHANGED << numberOfLinks, numberOfLinkEnds, multiLegConvergenceCriteria, wrappers, threads, linkEndsTimesOutput, linkEndsStatesOutput,
                    transmitterStateOutput, receiverStateOutput, call, solved >>

\* The record of a leg solve that returned.
Solved(f, value) ==
    [calculator |-> f.calculator, time |-> f.time, isTimeAtReception |-> f.isTimeAtReception,
     lightTime |-> value, passes |-> f.counter, warmStarted |-> f.warmStarted]

\* The leg solve returns (lines 495-502) into the backward walk (731-735).
BackwardLegReturn ==
    /\ pc = "backward" /\ leg.pc = "loop" /\ leg.isToleranceReached
    /\ LET x == LegExit(leg, caller.linkEndsStates, caller.linkEndsTimes)
       IN /\ caller' = BackwardAccumulate(caller, x)
          /\ cerr' = cerr \o x.cerr
          /\ solved' = Append(solved, Solved(leg, x.value))
    /\ leg' = NoLeg
    /\ UNCHANGED << lightTimeCalculators, numberOfLinks, numberOfLinkEnds, multiLegConvergenceCriteria, wrappers, threads, pc,
                    linkEndsTimesOutput, linkEndsStatesOutput, transmitterStateOutput,
                    receiverStateOutput, result, call >>

\* A variant that starts the forward walk at the input time.
StartForwardAtInputTime ==
    /\ pc = "backward" /\ leg.pc = "idle"
    /\ caller.currentDownIndex = 0
    /\ caller' = [caller EXCEPT
           !.currentLinkEndTransmissionTime = caller.time,
           !.currentUpIndex = caller.startLinkEndIndex]
    /\ pc' = "forward"
    /\ UNCHANGED << lightTimeCalculators, numberOfLinks, numberOfLinkEnds, multiLegConvergenceCriteria, wrappers, threads, leg,
                    linkEndsTimesOutput, linkEndsStatesOutput, transmitterStateOutput,
                    receiverStateOutput, cerr, result, call, solved >>

\* Line 739: the backward walk is over, the forward walk starts.
StartForward ==
    /\ pc = "backward" /\ leg.pc = "idle"
    /\ caller.currentDownIndex = 0
    /\ caller' = [caller EXCEPT
           !.currentLinkEndTransmissionTime =
               caller.time + At(caller.currentRetransmissionDelays, caller.startLinkEndIndex),
           !.currentUpIndex = caller.startLinkEndIndex]
    /\ pc' = "forward"
    /\ UNCHANGED << lightTimeCalculators, numberOfLinks, numberOfLinkEnds, multiLegConvergenceCriteria, wrappers, threads, leg,
                    linkEndsTimesOutput, linkEndsStatesOutput, transmitterStateOutput,
                    receiverStateOutput, cerr, result, call, solved >>

\* Lines 742-746: the next leg towards the receiver is invoked.
ForwardLegCall ==
    /\ pc = "forward" /\ leg.pc = "idle"
    /\ caller.currentUpIndex < numberOfLinkEnds - 1
    /\ InvokeLeg(caller.currentUpIndex, caller.currentLinkEndTransmissionTime, FALSE,
                 2 * caller.currentUpIndex, caller, "forward")
    /\ UNCHANGED << numberOfLinks, numberOfLinkEnds, multiLegConvergenceCriteria, wrappers, threads, linkEndsTimesOutput, linkEndsStatesOutput,
                    transmitterStateOutput, receiverStateOutput, cerr, solved >>

\* The leg solve returns (lines 495-502) into the forward walk (749-753).
ForwardLegReturn ==
    /\ pc = "forward" /\ leg.pc = "loop" /\ leg.isToleranceReached
    /\ LET x == LegExit(leg, caller.linkEndsStates, caller.linkEndsTimes)
       IN /\ caller' = ForwardAccumulate(caller, x)
          /\ cerr' = cerr \o x.cerr
          /\ solved' = Append(solved, Solved(leg, x.value))
    /\ leg' = NoLeg
    /\ UNCHANGED << lightTimeCalculators, numberOfLinks, numberOfLinkEnds, multiLegConvergenceCriteria, wrappers, threads, pc,
                    linkEndsTimesOutput, linkEndsStatesOutput, transmitterStateOutput,
                    receiverStateOutput, result, call >>

\* A variant that does not clear the output vectors before it fills them.
SaveOutputKeepingStale ==
    /\ pc = "forward" /\ leg.pc = "idle"
    /\ ~(caller.currentUpIndex < numberOfLinkEnds - 1)
    /\ linkEndsTimesOutput' = linkEndsTimesOutput \o caller.linkEndsTimes
    /\ linkEndsStatesOutput' = linkEndsStatesOutput \o caller.linkEndsStates
    /\ result' = [outcome |-> "returned", value |-> caller.totalLightTime, what |-> "none"]
    /\ pc' = "returned"
    /\ UNCHANGED << lightTimeCalculators, numberOfLinks, numberOfLinkEnds, multiLegConvergenceCriteria, wrappers, threads, caller, leg,
                    transmitterStateOutput, receiverStateOutput, cerr, call, solved >>

\* Lines 756-767: the outputs are replaced and the total returned.
SaveOutput ==
    /\ pc = "forward" /\ leg.pc = "idle"
    /\ ~(caller.currentUpIndex < numberOfLinkEnds - 1)
    /\ linkEndsTimesOutput' = [i \in 1..(2 * numberOfLinks) |-> caller.linkEndsTimes[i]]
    /\ linkEndsStatesOutput' = [i \in 1..(2 * numberOfLinks) |-> caller.linkEndsStates[i]]
    /\ result' = [outcome |-> "returned", value |-> caller.totalLightTime, what |-> "none"]
    /\ pc' = "returned"
    /\ UNCHANGED << lightTimeCalculators, numberOfLinks, numberOfLinkEnds, multiLegConvergenceCriteria, wrappers, threads, caller, leg,
                    transmitterStateOutput, receiverStateOutput, cerr, call, solved >>

\* LightTimeCalculator::calculateLightTimeWithLinkEndsStates of leg k, lines
\* 381-385: two unset slots, and the solve is invoked on them.
SingleLegCall(k, time, isTimeAtReception) ==
    /\ pc = "idle"
    /\ call' = [NoCall EXCEPT !.kind = "single", !.time = time, !.calculator = k,
                              !.isTimeAtReception = isTimeAtReception,
                              !.calculatorsBefore = lightTimeCalculators,
                              !.providersEvaluated = TRUE]
    /\ cerr' = << >>
    /\ solved' = << >>
    /\ LET e == LegEnter(Calculator(k), k, Fill(2, NaNState), Fill(2, NaN), time, isTimeAtReception, 0)
       IN /\ lightTimeCalculators' = SetAt(lightTimeCalculators, k, e.calc)
          /\ leg' = e.frame
          /\ caller' = [NoCaller EXCEPT !.time = time,
                                        !.linkEndsTimes = Fill(2, NaN),
                                        !.linkEndsStates = Fill(2, NaNState)]
    /\ pc' = "single"
    /\ UNCHANGED << numberOfLinks, numberOfLinkEnds, multiLegConvergenceCriteria, wrappers, threads, linkEndsTimesOutput, linkEndsStatesOutput,
                    transmitterStateOutput, receiverStateOutput, result >>

\* The solve returns (lines 495-502) and the two states are handed out (387-390).
SingleLegReturn ==
    /\ pc = "single" /\ leg.pc = "loop" /\ leg.isToleranceReached
    /\ LET x == LegExit(leg, caller.linkEndsStates, caller.linkEndsTimes)
       IN /\ caller' = [caller EXCEPT !.linkEndsTimes = x.linkEndsTimes,
                                      !.linkEndsStates = x.linkEndsStates]
          /\ transmitterStateOutput' = At(x.linkEndsStates, 0)
          /\ receiverStateOutput' = At(x.linkEndsStates, 1)
          /\ cerr' = cerr \o x.cerr
          /\ solved' = Append(solved, Solved(leg, x.value))
          /\ result' = [outcome |-> "returned", value |-> x.value, what |-> "none"]
    /\ leg' = NoLeg
    /\ pc' = "returned"
    /\ UNCHANGED << lightTimeCalculators, numberOfLinks, numberOfLinkEnds, multiLegConvergenceCriteria, wrappers, threads,
                    linkEndsTimesOutput, linkEndsStatesOutput, call >>

\* A caller invokes calculateLightTimeWithMultiLegLinkEndsStates of leg k
\* itself, on two vectors of its own that hold an initial guess of the two
\* link-end times (lines 406-461).
DirectLegCall(k, time, isTimeAtReception, linkEndsTimes) ==
    /\ pc = "idle"
    /\ call' = [NoCall EXCEPT !.kind = "direct", !.time = time, !.calculator = k,
                              !.isTimeAtReception = isTimeAtReception,
                              !.calculatorsBefore = lightTimeCalculators,
                              !.timesBefore = linkEndsTimes,
                              !.statesBefore = Fill(2, NaNState),
                              !.providersEvaluated = TRUE]
    /\ cerr' = << >>
    /\ solved' = << >>
    /\ linkEndsTimesOutput' = linkEndsTimes
    /\ linkEndsStatesOutput' = Fill(2, NaNState)
    /\ LET e == LegEnter(Calculator(k), k, Fill(2, NaNState), linkEndsTimes, time, isTimeAtReception, 0)
       IN /\ lightTimeCalculators' = SetAt(lightTimeCalculators, k, e.calc)
          /\ leg' = e.frame
          /\ caller' = [NoCaller EXCEPT !.time = time,
                                        !.linkEndsTimes = linkEndsTimes,
                                        !.linkEndsStates = Fill(2, NaNState)]
    /\ pc' = "direct"
    /\ UNCHANGED << numberOfLinks, numberOfLinkEnds, multiLegConvergenceCriteria, wrappers, threads, transmitterStateOutput,
                    receiverStateOutput, result >>

\* The solve returns into that caller (lines 495-502): its two vectors hold
\* the times and states of the leg.
DirectLegReturn ==
    /\ pc = "direct" /\ leg.pc = "loop" /\ leg.isToleranceReached
    /\ LET x == LegExit(leg, caller.linkEndsStates, caller.linkEndsTimes)
       IN /\ caller' = [caller EXCEPT !.linkEndsTimes = x.linkEndsTimes,
                                      !.linkEndsStates = x.linkEndsStates]
          /\ linkEndsTimesOutput' = x.linkEndsTimes
          /\ linkEndsStatesOutput' = x.linkEndsStates
          /\ cerr' = cerr \o x.cerr
          /\ solved' = Append(solved, Solved(leg, x.value))
          /\ result' = [outcome |-> "returned", value |-> x.value, what |-> "none"]
    /\ leg' = NoLeg
    /\ pc' = "returned"
    /\ UNCHANGED << lightTimeCalculators, numberOfLinks, numberOfLinkEnds, multiLegConvergenceCriteria, wrappers, threads,
                    transmitterStateOutput, receiverStateOutput, call >>

\* The caller has its answer (a value or an exception) and goes on; what is
\* left of the call is dropped.  The calculators keep their cached values.
CallerContinues ==
    /\ pc \in {"returned", "threw"}
    /\ pc' = "idle"
    /\ caller' = NoCaller
    /\ leg' = NoLeg
    /\ linkEndsTimesOutput' = << >>
    /\ linkEndsStatesOutput' = << >>
    /\ transmitterStateOutput' = NaNState
    /\ receiverStateOutput' = NaNState
    /\ cerr' = << >>
    /\ result' = NoResult
    /\ call' = NoCall
    /\ solved' = << >>
    /\ UNCHANGED << lightTimeCalculators, numberOfLinks, numberOfLinkEnds, multiLegConvergenceCriteria, wrappers, threads >>

Next ==
    \/ \E t \in Times, s \in 0..(numberOfLinkEnds - 1),
          a \in AncillarySettings(numberOfLinks) :
            MultiLegCall(t, s, a, StaleTimes, StaleStates)
    \/ BackwardLegCall
    \/ LegIterate
    \/ BackwardLegReturn
    \/ StartForward
    \/ ForwardLegCall
    \/ ForwardLegReturn
    \/ SaveOutput
    \/ \E k \in 0..(numberOfLinks - 1), t \in Times, r \in BOOLEAN : SingleLegCall(k, t, r)
    \/ SingleLegReturn
    \/ \E k \in 0..(numberOfLinks - 1), t \in Times, r \in BOOLEAN, g \in GuessedTimes :
          DirectLegCall(k, t, r, g)
    \/ DirectLegReturn
    \/ CallerContinues

Spec == Init /\ [][Next]_vars

\* Every list of calculators the constructor of MultiLegLightTimeCalculator
\* takes: it makes no test of the list, so the empty list is among them.
InitAnyList ==
    /\ \/ Constructed(<< >>, DefaultCriteria)
       \/ \E n \in 1..MaxLegs : \E cs \in Chains(n) : Constructed(cs, DefaultCriteria)
    /\ wrappers = << >>
    /\ threads = << >>

SpecAnyList == InitAnyList /\ [][Next]_vars

\* A chain of MaxLegs legs constructed with criteria of its own.
InitCriteria ==
    /\ \E cs \in Chains(MaxLegs) : Constructed(cs, StrictCriteria)
    /\ wrappers = << >>
    /\ threads = << >>

SpecCriteria == InitCriteria /\ [][Next]_vars

\* ------------------------------------------------- the wrappers by themselves
\* The variables of the solver.
solver == << lightTimeCalculators, numberOfLinks, numberOfLinkEnds, multiLegConvergenceCriteria,
           pc, caller, leg,
             linkEndsTimesOutput, linkEndsStatesOutput, transmitterStateOutput,
             receiverStateOutput, cerr, result, call, solved >>

InitWrapper ==
    /\ Constructed(<< RestingLeg >>, DefaultCriteria)
    /\ wrappers = [i \in 1..MaxWrappers |-> LightTimeCorrectionFunctionWrapper]
    /\ threads = << >>

PartialWrtLinkEndTime(i) ==
    /\ Len(wrappers[i].returned) < MaxCalls
    /\ wrappers' = [wrappers EXCEPT
           ![i] = calculateLightTimeCorrectionPartialDerivativeWrtLinkEndTime(@)]
    /\ UNCHANGED << solver, threads >>

PartialWrtLinkEndPosition(i) ==
    /\ Len(wrappers[i].returned) < MaxCalls
    /\ wrappers' = [wrappers EXCEPT
           ![i] = calculateLightTimeCorrectionPartialDerivativeWrtLinkEndPosition(@)]
    /\ UNCHANGED << solver, threads >>

NextWrapper ==
    \/ \E i \in 1..MaxWrappers : PartialWrtLinkEndTime(i)
    \/ \E i \in 1..MaxWrappers : PartialWrtLinkEndPosition(i)

SpecWrapper == InitWrapper /\ [][NextWrapper]_vars

\* ------------------------------------------------------- concurrent solves
\* Two threads each run calculateLightTimeWithLinkEndsStates once, on the same
\* calculator object or on two.  A thread is the frame of its solve and what
\* it has thrown.  A step of a thread holds one access to the members
\* currentCorrection_ and currentIdealLightTime_ of its calculator, together
\* with the work on its locals that comes before it.
Threads == {1, 2}

\* The calculators threads run on.
ThreadCalculators ==
    { RestingLeg,
      LightTimeCalculator(RestingTransmitter, RestingReceiver, << PathCorrection >>,
          LightTimeConvergenceCriteria(FALSE, MaxIterations, NaN, "accept_without_warning")),
      LightTimeCalculator(MovingTransmitter, MovingReceiver, << >>,
          LightTimeConvergenceCriteria(TRUE, MaxIterations, 2, "accept_without_warning")),
      LightTimeCalculator(MovingTransmitter, MovingReceiver, << ConstantCorrection(1) >>,
          LightTimeConvergenceCriteria(TRUE, 1, NaN, "throw_exception")) }

Thread(k, time, isTimeAtReception) ==
    [frame |-> [NoLeg EXCEPT !.calculator = k, !.time = time,
                             !.isTimeAtReception = isTimeAtReception],
     thrown |-> "none"]

InitThreads ==
    /\ \E a \in ThreadCalculators, b \in ThreadCalculators : Constructed(<< a, b >>, DefaultCriteria)
    /\ wrappers = << >>
    /\ \E k \in {0, 1}, t1 \in Times, t2 \in Times, r1 \in BOOLEAN, r2 \in BOOLEAN :
          threads = << Thread(0, t1, r1), Thread(k, t2, r2) >>

\* A variant in which the two cached values are shared by all objects.
WriteMembersOfAll(calculators, k, calc) ==
    [i \in 1..Len(calculators) |->
        [calculators[i] EXCEPT !.currentCorrection = calc.currentCorrection,
                               !.currentIdealLightTime = calc.currentIdealLightTime]]

\* Lines 587-590: the two cached values are members of the object.
WriteMembers(calculators, k, calc) == SetAt(calculators, k, calc)

\* Line 608: the estimate is read back from the two members.
ReadEstimate(calc) == calc.currentIdealLightTime + calc.currentCorrection

ThreadFrame(th) == threads[th].frame

ThreadCalculator(th) == Calculator(ThreadFrame(th).calculator)

ThreadUnchanged ==
    UNCHANGED << numberOfLinks, numberOfLinkEnds, multiLegConvergenceCriteria, pc, caller, leg,
                 linkEndsTimesOutput,
                 linkEndsStatesOutput, transmitterStateOutput, receiverStateOutput, cerr,
                 result, call, solved, wrappers >>

\* Lines 381-385 and 433-442: the cold seed and the initial correction.
ThreadSeed(th) ==
    LET f == ThreadFrame(th)
        calc == ThreadCalculator(th)
        receiverState == StateFunction(calc.stateFunctionOfReceivingBody, f.time)
        transmitterState == StateFunction(calc.stateFunctionOfTransmittingBody, f.time)
    IN /\ f.pc = "idle"
       /\ lightTimeCalculators' = WriteMembers(lightTimeCalculators, f.calculator,
              setTotalLightTimeCorrection(calc, transmitterState, receiverState, f.time, f.time))
       /\ threads' = [threads EXCEPT ![th].frame =
              [f EXCEPT !.pc = "initialIdeal", !.receptionTime = f.time,
                        !.transmissionTime = f.time, !.receiverState = receiverState,
                        !.transmitterState = transmitterState]]
       /\ ThreadUnchanged

\* Lines 445-446 and 604-606: currentIdealLightTime_ is written.
ThreadInitialIdeal(th) ==
    LET f == ThreadFrame(th)
    IN /\ f.pc = "initialIdeal"
       /\ lightTimeCalculators' = WriteMembers(lightTimeCalculators, f.calculator,
              calculateNewLightTimeEstimate(ThreadCalculator(th), f.receiverState,
                                            f.transmitterState).calc)
       /\ threads' = [threads EXCEPT ![th].frame.pc = "initialEstimate"]
       /\ ThreadUnchanged

\* Lines 608 and 445-460: the first estimate is read; the loop's locals are set.
ThreadInitialEstimate(th) ==
    LET f == ThreadFrame(th)
        calc == ThreadCalculator(th)
    IN /\ f.pc = "initialEstimate"
       /\ threads' = [threads EXCEPT ![th].frame =
              [f EXCEPT !.pc = "loopCorrection",
                        !.previousLightTimeCalculation = ReadEstimate(calc),
                        !.updateLightTimeCorrections =
                            calc.lightTimeConvergenceCriteria.iterateCorrections]]
       /\ UNCHANGED lightTimeCalculators
       /\ ThreadUnchanged

\* Lines 466-469: the correction is refreshed when the flag is set.
ThreadLoopCorrection(th) ==
    LET f == ThreadFrame(th)
        calc == ThreadCalculator(th)
    IN /\ f.pc = "loopCorrection"
       /\ lightTimeCalculators' =
              IF f.updateLightTimeCorrections
              THEN WriteMembers(lightTimeCalculators, f.calculator,
                       setTotalLightTimeCorrection(calc, f.transmitterState, f.receiverState,
                                                   f.transmissionTime, f.receptionTime))
              ELSE lightTimeCalculators
       /\ threads' = [threads EXCEPT ![th].frame.pc = "loopIdeal"]
       /\ ThreadUnchanged

\* Lines 472-484 and 604-606: the times and the state of the free end are
\* moved, currentIdealLightTime_ is written.
ThreadLoopIdeal(th) ==
    LET f == ThreadFrame(th)
        calc == ThreadCalculator(th)
        receptionTime == IF f.isTimeAtReception THEN f.time
                         ELSE f.time + f.previousLightTimeCalculation
        transmissionTime == IF f.isTimeAtReception THEN f.time - f.previousLightTimeCalculation
                            ELSE f.time
        transmitterState == IF f.isTimeAtReception
                            THEN StateFunction(calc.stateFunctionOfTransmittingBody, transmissionTime)
                            ELSE f.transmitterState
        receiverState == IF f.isTimeAtReception THEN f.receiverState
                         ELSE StateFunction(calc.stateFunctionOfReceivingBody, receptionTime)
    IN /\ f.pc = "loopIdeal"
       /\ lightTimeCalculators' = WriteMembers(lightTimeCalculators, f.calculator,
              calculateNewLightTimeEstimate(calc, receiverState, transmitterState).calc)
       /\ threads' = [threads EXCEPT ![th].frame =
              [f EXCEPT !.pc = "loopEstimate", !.receptionTime = receptionTime,
                        !.transmissionTime = transmissionTime,
                        !.receiverState = receiverState,
                        !.transmitterState = transmitterState]]
       /\ ThreadUnchanged

\* Lines 608 and 484-502: the new estimate is read, the convergence test is
\* made, and the solve goes round the loop, returns or throws.
ThreadLoopEstimate(th) ==
    LET f == ThreadFrame(th)
        calc == ThreadCalculator(th)
        new == ReadEstimate(calc)
        conv == isLightTimeSolutionConverged(calc.lightTimeConvergenceCriteria,
                    f.previousLightTimeCalculation, new, f.counter,
                    f.updateLightTimeCorrections)
        g == [f EXCEPT !.newLightTimeCalculation = new,
                       !.isToleranceReached = conv.isToleranceReached,
                       !.updateLightTimeCorrections = conv.updateLightTimeCorrections,
                       !.previousLightTimeCalculation = new,
                       !.counter = IF f.counter < CounterCap THEN f.counter + 1 ELSE f.counter]
    IN /\ f.pc = "loopEstimate"
       /\ threads' = [threads EXCEPT ![th] =
              IF conv.thrown # "none"
              THEN [frame |-> [f EXCEPT !.pc = "threw"], thrown |-> conv.thrown]
              ELSE [frame |-> [g EXCEPT !.pc = IF conv.isToleranceReached THEN "returned"
                                               ELSE "loopCorrection"],
                    thrown |-> "none"]]
       /\ UNCHANGED lightTimeCalculators
       /\ ThreadUnchanged

NextThreads ==
    \/ \E th \in Threads : ThreadSeed(th)
    \/ \E th \in Threads : ThreadInitialIdeal(th)
    \/ \E th \in Threads : ThreadInitialEstimate(th)
    \/ \E th \in Threads : ThreadLoopCorrection(th)
    \/ \E th \in Threads : ThreadLoopIdeal(th)
    \/ \E th \in Threads : ThreadLoopEstimate(th)

SpecThreads == InitThreads /\ [][NextThreads]_vars

SpecLeg == InitLeg /\ [][Next]_vars


\* ------------------------------------------------------------------ claims
\* The calculator and the criteria of the running leg solve.
RunningCalculator == Calculator(leg.calculator)

RunningCriteria == RunningCalculator.lightTimeConvergenceCriteria

Running == leg.pc = "loop" /\ ~leg.isToleranceReached

Unconverged == "Error, light time unconverged"

Warning == "Warning, light time unconverged"

Contains(log, message) == \E i \in 1..Len(log) : log[i] = message

\* C1: a single-leg solve ends (returns or raises) after at most
\* maxIterations + 2 passes of its loop, for every failure policy: the loop is
\* never still running once maxIterations + 2 passes are done.
C1_SolveEndsWithinBound ==
    Running => leg.counter < RunningCriteria.maximumNumberOfIterations + 2

\* C2: under print_warning_and_accept, the pass that writes the warning ends
\* the loop: once the warning is written the loop is not running any more.
C2_WarningEndsTheLoop ==
    (leg.pc = "loop" /\ Contains(cerr, Warning)) => leg.isToleranceReached

\* Zero tolerance: the convergence test | new - previous | < tolerance is
\* never true.
NonConvergenceForced(k) == Calculator(k).lightTimeConvergenceCriteria.absoluteTolerance = 0

SizeError == "Error, size of retransmission delays is invalid"

ReferenceError == "Error, non-zero retransmission delay at the reference link end"

\* The vector the caller supplied, and whether its length is one of the two
\* accepted ones.
Supplied == call.ancillarySettings.retransmissionDelays

LengthAccepted ==
    call.ancillarySettings.isNull
        \/ Len(Supplied) = numberOfLinkEnds \/ Len(Supplied) = numberOfLinkEnds - 2

\* C4: a multi-leg solve that is given a delay vector whose length is neither
\* the number of link ends nor that number less two raises the size error.
C4_BadDelayLengthRaises ==
    (call.kind = "multi" /\ ~LengthAccepted) => (pc = "threw" /\ result.what = SizeError)

C4_Witness ==
    /\ call.kind = "multi" /\ numberOfLinkEnds = 3 /\ ~call.ancillarySettings.isNull
    /\ Len(Supplied) = 2
    /\ pc = "threw" /\ result.what = SizeError

\* The delay at link end s of the supplied vector, by the rule of the
\* specification: all zero when none is supplied, the vector itself at full
\* length, and at the shorter length its entries for the interior link ends.
NormalizedDelayAt(s) ==
    IF call.ancillarySettings.isNull THEN 0
    ELSE IF Len(Supplied) = numberOfLinkEnds THEN Supplied[s + 1]
    ELSE IF s = 0 \/ s = numberOfLinkEnds - 1 THEN 0
    ELSE Supplied[s]

InteriorReference == 0 < call.startLinkEndIndex /\ call.startLinkEndIndex < numberOfLinks

\* C5: a multi-leg solve whose delay vector has an accepted length raises the
\* reference-delay error exactly when the reference link end is interior and
\* its normalized delay is not zero.
C5_ReferenceDelayErrorExactly ==
    (call.kind = "multi" /\ LengthAccepted) =>
        ((pc = "threw" /\ result.what = ReferenceError)
            <=> (InteriorReference /\ NormalizedDelayAt(call.startLinkEndIndex) # 0))

C5_Witness ==
    /\ call.kind = "multi" /\ LengthAccepted
    /\ Len(Supplied) = numberOfLinkEnds - 2
    /\ InteriorReference /\ NormalizedDelayAt(call.startLinkEndIndex) # 0
    /\ pc = "threw" /\ result.what = ReferenceError

\* C6: when a multi-leg solve raises a configuration error, no leg has been
\* invoked, no provider evaluated, no calculator's cached value changed, and
\* the caller's output vectors hold what they held at the call.
C6_ConfigurationErrorBeforeAnyLeg ==
    (pc = "threw" /\ result.what \in {SizeError, ReferenceError}) =>
        /\ ~call.providersEvaluated
        /\ solved = << >>
        /\ lightTimeCalculators = call.calculatorsBefore
        /\ linkEndsTimesOutput = call.timesBefore
        /\ linkEndsStatesOutput = call.statesBefore

\* A configuration error of a chain with a throwing leg, after an earlier
\* solve has left its values in the cache.
C6_Witness ==
    /\ pc = "threw" /\ result.what = ReferenceError
    /\ \E k \in 0..(numberOfLinks - 1) :
          /\ Calculator(k).lightTimeConvergenceCriteria.failureHandling = "throw_exception"
          /\ Calculator(k).currentIdealLightTime # Indeterminate
    /\ linkEndsTimesOutput = StaleTimes


NonNegativeDelays == \A s \in 0..(numberOfLinkEnds - 1) : NormalizedDelayAt(s) >= 0

\* The corrections the legs' solves of the call ended with.
NonNegativeCorrections ==
    \A k \in 0..(numberOfLinks - 1) : Calculator(k).currentCorrection >= 0

\* C7: the 2N times a multi-leg solve with non-negative delays and corrections
\* returns are non-decreasing from index 0 to index 2N - 1.
C7_ReturnedTimesOrdered ==
    (call.kind = "multi" /\ pc = "returned" /\ NonNegativeDelays /\ NonNegativeCorrections) =>
        \A i \in 1..(2 * numberOfLinks - 1) : linkEndsTimesOutput[i] <= linkEndsTimesOutput[i + 1]

Resting(calc) ==
    calc.stateFunctionOfTransmittingBody.v = 0 /\ calc.stateFunctionOfReceivingBody.v = 0

\* The light time leg k's calculator returns when it is asked by itself, as it
\* was before the call.
Independently(k, t, r) ==
    calculateLightTimeWithLinkEndsStates(At(call.calculatorsBefore, k), t, r)

\* C8: the total a chain of two legs with resting link ends and no delays
\* returns is the sum of the light times its two calculators return when each
\* is asked by itself, at any time and for either end, whatever the reference
\* link end.
C8_TotalIsSumOfIndependentLegs ==
    (/\ call.kind = "multi" /\ pc = "returned" /\ numberOfLinks = 2
     /\ \A s \in 0..2 : NormalizedDelayAt(s) = 0
     /\ \A k \in 0..1 : Resting(Calculator(k))) =>
        \A t \in Times, r \in BOOLEAN :
            /\ Independently(0, t, r).returned /\ Independently(1, t, r).returned
            /\ result.value = Independently(0, t, r).lightTime + Independently(1, t, r).lightTime

C8_Witness ==
    /\ call.kind = "multi" /\ pc = "returned" /\ numberOfLinks = 2
    /\ call.startLinkEndIndex = 1
    /\ \A s \in 0..2 : NormalizedDelayAt(s) = 0
    /\ \A k \in 0..1 : Resting(Calculator(k))
    /\ Calculator(1).correctionFunctions = << PathCorrection >>

\* The providers of the calculator the call is on, and their sum when each
\* returns a constant.
Providers == Calculator(call.calculator).correctionFunctions

ConstantProviders == \A i \in 1..Len(Providers) : Providers[i].kind = "constant"

RECURSIVE SumOfConstants(_)
SumOfConstants(providers) ==
    IF providers = << >> THEN 0 ELSE Head(providers).value + SumOfConstants(Tail(providers))

\* The value of provider i at the states and times of the running solve.
ProviderValue(i) ==
    calculateLightTimeCorrection(Providers[i], leg.transmitterState, leg.receiverState,
                                 leg.transmissionTime, leg.receptionTime)

\* C9: the total correction of a single-leg solve is the sum of its
\* providers' values: when the solve has made its first estimate, the cached
\* correction is the sum of the values at the seed states and times; with
\* constant providers it is the sum of the constants throughout (zero with no
\* provider), and the returned light time is the ideal light time between the
\* returned states plus that sum.
C9_CorrectionIsPlainSum ==
    call.kind = "single" =>
        LET calc == Calculator(call.calculator)
        IN /\ (leg.pc = "loop" /\ leg.counter = 0) =>
                 calc.currentCorrection = SumSeq([i \in 1..Len(Providers) |-> ProviderValue(i)])
           /\ ConstantProviders =>
                 /\ calc.currentCorrection = SumOfConstants(Providers)
                 /\ pc = "returned" =>
                       result.value =
                           DivRound(fabs(receiverStateOutput.pos - transmitterStateOutput.pos),
                                    SpeedOfLight) + SumOfConstants(Providers)

C9_Witness ==
    /\ call.kind = "single" /\ pc = "returned"
    /\ Providers = << ConstantCorrection(1), ConstantCorrection(2) >>
    /\ result.value = 5

\* C10: between two resting link ends a distance D apart, with no correction
\* provider and a positive tolerance, a single-leg solve does not raise and
\* returns D divided by the speed of light, at every time and for either end.
C10_StaticLightTime ==
    LET calc == Calculator(call.calculator)
        D == fabs(calc.stateFunctionOfReceivingBody.p0 - calc.stateFunctionOfTransmittingBody.p0)
    IN (/\ call.kind = "single" /\ Resting(calc) /\ calc.correctionFunctions = << >>
        /\ getAbsoluteTolerance(calc.lightTimeConvergenceCriteria) > 0) =>
           /\ pc # "threw"
           /\ Running => leg.counter <= 1
           /\ pc = "returned" => result.value = DivRound(D, SpeedOfLight)

C10_Witness ==
    /\ call.kind = "single" /\ pc = "returned"
    /\ Resting(Calculator(call.calculator))
    /\ Calculator(call.calculator).correctionFunctions = << >>
    /\ getAbsoluteTolerance(Calculator(call.calculator).lightTimeConvergenceCriteria) > 0
    /\ Calculator(call.calculator).lightTimeConvergenceCriteria.failureHandling = "throw_exception"
    /\ ~call.isTimeAtReception /\ call.time = 1
    /\ result.value = 2


\* The solve of the call's calculator, as it was before the call, started
\* with no guess at the call's time and for the call's end.
ColdStarted ==
    calculateLightTimeWithLinkEndsStates(At(call.calculatorsBefore, call.calculator),
                                         call.time, call.isTimeAtReception)

\* C11: a single-leg solve that starts from a guess of the two link-end times
\* returns the light time, the two link-end times and the two link-end states
\* the solve without a guess returns.
C11_WarmStartReturnsColdResult ==
    (call.kind = "direct" /\ pc = "returned") =>
        /\ ColdStarted.returned
        /\ result.value = ColdStarted.lightTime
        /\ linkEndsTimesOutput = << ColdStarted.frame.transmissionTime, ColdStarted.frame.receptionTime >>
        /\ linkEndsStatesOutput = << ColdStarted.frame.transmitterState, ColdStarted.frame.receiverState >>


\* A leg solve is running for a multi-leg solve or for the two-state
\* single-leg entry point.
LegInvoked == call.kind \in {"multi", "single"} /\ leg.pc = "loop"

\* C12: whenever a multi-leg solve or the two-state single-leg entry point
\* has invoked a leg, the two time slots of that leg in the vectors handed to
\* it are unset and the leg has started from zero light time; every leg solve
\* that returned during the call started that way.
C12_EveryLegColdStarted ==
    /\ LegInvoked =>
          /\ isnan(At(caller.linkEndsTimes, leg.multiLegTransmitterIndex))
          /\ isnan(At(caller.linkEndsTimes, leg.multiLegTransmitterIndex + 1))
          /\ ~leg.warmStarted
    /\ call.kind \in {"multi", "single"} => \A i \in 1..Len(solved) : ~solved[i].warmStarted

\* The second leg of a walk is running, on a calculator that an earlier call
\* has used.
C12_Witness ==
    /\ call.kind = "multi" /\ numberOfLinks = 2 /\ call.startLinkEndIndex = 0
    /\ Len(solved) = 1 /\ leg.pc = "loop" /\ leg.calculator = 1
    /\ At(call.calculatorsBefore, 1).currentIdealLightTime # Indeterminate
    /\ ~leg.warmStarted


ZeroOf(method) == IF method = "time" THEN 0 ELSE << 0, 0, 0 >>

\* C13: every call of either partial-derivative method of a wrapper returns
\* zero; the call that writes the warning is the wrapper's first call, of
\* whichever method, and no later one; so a wrapper has written exactly one
\* warning once it has been called and none before, whatever the other
\* wrappers have done.
C13_OneWarningPerWrapper ==
    \A i \in 1..Len(wrappers) :
        LET w == wrappers[i]
        IN /\ \A k \in 1..Len(w.returned) :
                 /\ w.returned[k].value = ZeroOf(w.returned[k].method)
                 /\ w.returned[k].warned <=> k = 1
           /\ w.cerr = IF Len(w.returned) > 0 THEN << PartialWarning >> ELSE << >>
           /\ w.isWarningProvided <=> Len(w.returned) > 0

\* One wrapper has been called MaxCalls times, by both methods, the position
\* method first; another has just had its first call.
C13_Witness ==
    /\ Len(wrappers) >= 2
    /\ Len(wrappers[1].returned) = MaxCalls
    /\ wrappers[1].returned[1].method = "position"
    /\ wrappers[1].returned[2].method = "time"
    /\ wrappers[1].returned[3].method = "position"
    /\ Len(wrappers[1].cerr) = 1
    /\ Len(wrappers[2].returned) = 1 /\ wrappers[2].returned[1].warned


\* What the solve of thread th returns when it runs with no other.
Alone(th) ==
    calculateLightTimeWithLinkEndsStates(ThreadCalculator(th), ThreadFrame(th).time,
                                         ThreadFrame(th).isTimeAtReception)

\* Thread th has ended as its solve ends when it runs alone: with the same
\* exception, or with the same light time, times, states and pass count.
EndedAsAlone(th) ==
    LET f == ThreadFrame(th)
    IN /\ f.pc = "threw" => Alone(th).thrown = threads[th].thrown
       /\ f.pc = "returned" =>
             /\ Alone(th).returned
             /\ f.newLightTimeCalculation = Alone(th).lightTime
             /\ f.transmissionTime = Alone(th).frame.transmissionTime
             /\ f.receptionTime = Alone(th).frame.receptionTime
             /\ f.transmitterState = Alone(th).frame.transmitterState
             /\ f.receiverState = Alone(th).frame.receiverState
             /\ f.counter = Alone(th).frame.counter

DistinctInstances ==
    Len(threads) = 2 /\ ThreadFrame(1).calculator # ThreadFrame(2).calculator

\* C14: two solves that run concurrently on two calculator objects end, under
\* every interleaving of their steps, as each ends when it runs alone.
C14_DistinctInstancesIndependent ==
    DistinctInstances => \A th \in Threads : EndedAsAlone(th)

\* Both solves have returned, one between moving ends and one with a
\* path-dependent correction, asked at different times.
C14_Witness ==
    /\ DistinctInstances
    /\ \A th \in Threads : ThreadFrame(th).pc = "returned"
    /\ ThreadFrame(1).time # ThreadFrame(2).time
    /\ ThreadCalculator(1).stateFunctionOfReceivingBody = MovingReceiver
    /\ ThreadCalculator(2).correctionFunctions = << PathCorrection >>

\* Two solves on one calculator object: a solve has returned a light time it
\* does not return when it runs alone.
SharedInstanceInterference ==
    /\ Len(threads) = 2 /\ ThreadFrame(1).calculator = ThreadFrame(2).calculator
    /\ \E th \in Threads :
          /\ ThreadFrame(th).pc = "returned"
          /\ ThreadFrame(th).newLightTimeCalculation # Alone(th).lightTime


\* C15: a constructed multi-leg calculator has one leg less than it has link
\* ends, and at least one leg.
C15_AtLeastOneLeg ==
    numberOfLinks = numberOfLinkEnds - 1 /\ numberOfLinks >= 1


\* A step that is one pass of the loop of the running solve and does not throw.
PassStep == Running /\ leg'.pc = "loop" /\ leg' # leg

\* The pass of the step found | new - previous | below the tolerance.
PassWithinTolerance ==
    fabs(leg'.newLightTimeCalculation - leg.previousLightTimeCalculation)
        < getAbsoluteTolerance(RunningCriteria)

\* The correction the pass of the step computes when it refreshes.
RefreshedCorrection ==
    setTotalLightTimeCorrection(RunningCalculator, leg.transmitterState, leg.receiverState,
                                leg.transmissionTime, leg.receptionTime).currentCorrection

\* C16: in every pass of a solve, the refresh flag is what iterateCorrections
\* says until a pass is within the tolerance; a pass within the tolerance
\* whose flag is off is not accepted and switches the flag on, so the loop
\* goes on to a pass that refreshes the correction before its test; a pass is
\* accepted as converged only with the flag on, that is after it has
\* refreshed the correction; a pass within the tolerance whose flag is on is
\* accepted; the flag is never switched off.
C16_ForcedRefreshBeforeAcceptance ==
    [][PassStep =>
        /\ (leg.counter = 0) =>
              leg.updateLightTimeCorrections = RunningCriteria.iterateCorrections
        /\ (PassWithinTolerance /\ ~leg.updateLightTimeCorrections) =>
              (~leg'.isToleranceReached /\ leg'.updateLightTimeCorrections)
        /\ (PassWithinTolerance /\ leg.updateLightTimeCorrections) => leg'.isToleranceReached
        /\ (PassWithinTolerance /\ leg'.isToleranceReached) =>
              /\ leg.updateLightTimeCorrections
              /\ Calculator(leg.calculator)'.currentCorrection = RefreshedCorrection
        /\ leg.updateLightTimeCorrections =>
              /\ leg'.updateLightTimeCorrections
              /\ Calculator(leg.calculator)'.currentCorrection = RefreshedCorrection
        /\ (~leg.updateLightTimeCorrections) =>
              Calculator(leg.calculator)'.currentCorrection = RunningCalculator.currentCorrection
        /\ (~PassWithinTolerance) =>
              leg'.updateLightTimeCorrections = leg.updateLightTimeCorrections
     ]_vars

\* A solve with iterateCorrections off and a path-dependent correction has
\* returned: pass 0 was within the tolerance and switched the refresh on, pass
\* 1 refreshed the correction and moved the estimate, pass 2 was accepted.
C16_Witness ==
    /\ call.kind = "single" /\ pc = "returned"
    /\ ~Calculator(call.calculator).lightTimeConvergenceCriteria.iterateCorrections
    /\ Calculator(call.calculator).correctionFunctions = << PathCorrection >>
    /\ Calculator(call.calculator).currentCorrection # 0
    /\ solved[1].passes = 3


RECURSIVE SumOfLightTimes(_)
SumOfLightTimes(solves) ==
    IF solves = << >> THEN 0 ELSE Head(solves).lightTime + SumOfLightTimes(Tail(solves))

RECURSIVE SumOfDelaysUpTo(_)
SumOfDelaysUpTo(s) == IF s < 0 THEN 0 ELSE NormalizedDelayAt(s) + SumOfDelaysUpTo(s - 1)

\* C17: the total a multi-leg solve returns is the sum of the light times its
\* N leg solves returned plus the sum of the N + 1 normalized delays, the
\* delay at the reference link end included, for every reference link end.
C17_TotalIsLightTimesPlusDelays ==
    (call.kind = "multi" /\ pc = "returned") =>
        /\ Len(solved) = numberOfLinks
        /\ result.value = SumOfLightTimes(solved) + SumOfDelaysUpTo(numberOfLinkEnds - 1)

\* A chain of two legs with a delay of one at every link end, solved from its
\* last link end.
C17_Witness ==
    /\ call.kind = "multi" /\ pc = "returned" /\ numberOfLinks = 2
    /\ call.startLinkEndIndex = 2
    /\ ~call.ancillarySettings.isNull /\ Supplied = << 1, 1, 1 >>
    /\ result.value = SumOfLightTimes(solved) + 3


\* A step that is the return of the running leg solve to its caller.
ReturnStep == leg.pc = "loop" /\ leg.isToleranceReached /\ leg'.pc = "idle" /\ pc' # "threw"

\* C18: the pass that ends a solve started with no guess leaves the time of
\* the known end at the input time t and the time of the other end at t minus
\* (time at reception) or plus (time at transmission) the estimate the pass
\* began with, and holds for each end the state of its provider at that end's
\* time; the return writes these two times and two states into the leg's
\* slots, and the two-state entry point hands out these two states.
C18_ReturnedTimesAndStates ==
    [][/\ (PassStep /\ ~leg.warmStarted /\ leg'.isToleranceReached) =>
            /\ leg'.receptionTime = IF leg.isTimeAtReception THEN leg.time
                                    ELSE leg.time + leg.previousLightTimeCalculation
            /\ leg'.transmissionTime = IF leg.isTimeAtReception
                                       THEN leg.time - leg.previousLightTimeCalculation
                                       ELSE leg.time
            /\ leg'.receiverState =
                  StateFunction(RunningCalculator.stateFunctionOfReceivingBody, leg'.receptionTime)
            /\ leg'.transmitterState =
                  StateFunction(RunningCalculator.stateFunctionOfTransmittingBody, leg'.transmissionTime)
       /\ (ReturnStep /\ ~leg.warmStarted) =>
            /\ At(caller'.linkEndsTimes, leg.multiLegTransmitterIndex) = leg.transmissionTime
            /\ At(caller'.linkEndsTimes, leg.multiLegTransmitterIndex + 1) = leg.receptionTime
            /\ At(caller'.linkEndsStates, leg.multiLegTransmitterIndex) = leg.transmitterState
            /\ At(caller'.linkEndsStates, leg.multiLegTransmitterIndex + 1) = leg.receiverState
            /\ call.kind = "single" =>
                  /\ transmitterStateOutput' = leg.transmitterState
                  /\ receiverStateOutput' = leg.receiverState
      ]_vars

\* A solve between moving ends, asked at its transmission time, has returned a
\* light time other than the estimate its last pass began with: the reception
\* time it leaves is not the input time plus the returned light time.
C18_Witness ==
    /\ call.kind = "single" /\ pc = "returned" /\ ~call.isTimeAtReception
    /\ At(caller.linkEndsTimes, 0) = call.time
    /\ At(caller.linkEndsTimes, 1) # call.time + result.value
    /\ receiverStateOutput =
          StateFunction(Calculator(call.calculator).stateFunctionOfReceivingBody,
                        At(caller.linkEndsTimes, 1))


\* times[i] of the returned vector, with the indices of the code.
ReturnedTime(i) == At(linkEndsTimesOutput, i)

\* C19: in the times a multi-leg solve returns, at every interior link end j
\* the transmission time of the leg that leaves it less the reception time of
\* the leg that arrives is the normalized delay d[j].
C19_JunctionDelayExact ==
    (call.kind = "multi" /\ pc = "returned") =>
        \A j \in 1..(numberOfLinks - 1) :
            ReturnedTime(2 * j) - ReturnedTime(2 * j - 1) = NormalizedDelayAt(j)

\* C20: in the times a multi-leg solve returns, the leg that arrives at the
\* reference link end s is received at the input time less d[s] and the leg
\* that leaves it is transmitted at the input time plus d[s]; at an interior
\* reference link end both are the input time.
C20_AnchoredAtReference ==
    (call.kind = "multi" /\ pc = "returned") =>
        LET s == call.startLinkEndIndex
        IN /\ s >= 1 => ReturnedTime(2 * s - 1) = call.time - NormalizedDelayAt(s)
           /\ s < numberOfLinks => ReturnedTime(2 * s) = call.time + NormalizedDelayAt(s)
           /\ InteriorReference =>
                 ReturnedTime(2 * s - 1) = call.time /\ ReturnedTime(2 * s) = call.time

\* A chain of two legs solved from its first link end, whose delay is one.
C20_Witness ==
    /\ call.kind = "multi" /\ pc = "returned" /\ numberOfLinks = 2
    /\ call.startLinkEndIndex = 0 /\ NormalizedDelayAt(0) = 1
    /\ ReturnedTime(0) = call.time + 1


\* The leg the i-th leg solve of a walk from link end s is on: s - 1 down to
\* 0, then s up to N - 1.
WalkLeg(i, s) == IF i <= s THEN s - i ELSE i - 1

\* C21: a multi-leg solve that returns has solved each of its N legs once, the
\* legs s - 1 down to 0 from their reception time and then the legs s up to
\* N - 1 from their transmission time; its output vectors hold exactly 2N
\* entries, none unset, with the transmitter of leg i at index 2i and its
\* receiver at index 2i + 1.
C21_WalkOrderAndOutputLayout ==
    (call.kind = "multi" /\ pc = "returned") =>
        /\ Len(solved) = numberOfLinks
        /\ \A i \in 1..Len(solved) :
              /\ solved[i].calculator = WalkLeg(i, call.startLinkEndIndex)
              /\ solved[i].isTimeAtReception <=> i <= call.startLinkEndIndex
        /\ Len(linkEndsTimesOutput) = 2 * numberOfLinks
        /\ Len(linkEndsStatesOutput) = 2 * numberOfLinks
        /\ \A i \in 0..(numberOfLinks - 1) :
              /\ ~isnan(ReturnedTime(2 * i)) /\ ~isnan(ReturnedTime(2 * i + 1))
              /\ At(linkEndsStatesOutput, 2 * i) =
                    StateFunction(Calculator(i).stateFunctionOfTransmittingBody, ReturnedTime(2 * i))
              /\ At(linkEndsStatesOutput, 2 * i + 1) =
                    StateFunction(Calculator(i).stateFunctionOfReceivingBody, ReturnedTime(2 * i + 1))

\* A chain of two legs solved from its interior link end, the first leg
\* between moving ends: leg 0 was solved first, from its reception time.
C21_Witness ==
    /\ call.kind = "multi" /\ pc = "returned" /\ numberOfLinks = 2
    /\ call.startLinkEndIndex = 1
    /\ Calculator(0).stateFunctionOfReceivingBody = MovingReceiver
    /\ Len(solved) = 2 /\ solved[1].calculator = 0 /\ solved[2].calculator = 1
    /\ Len(linkEndsTimesOutput) = 4 /\ call.timesBefore = StaleTimes


\* The delay vector the specification's rule gives for the supplied one.
ExpectedDelays ==
    IF call.ancillarySettings.isNull THEN Fill(numberOfLinks + 1, 0)
    ELSE IF Len(Supplied) = numberOfLinks + 1 THEN Supplied
    ELSE << 0 >> \o Supplied \o << 0 >>

\* C22: the delay vector a multi-leg solve over N legs walks with is all zeros
\* of length N + 1 when none is supplied, the supplied vector when its length
\* is N + 1, and the supplied vector with a zero put before its first and
\* after its last entry when its length is N - 1.
C22_DelaysNormalized ==
    (call.kind = "multi" /\ LengthAccepted /\ pc \in {"backward", "forward", "returned"}) =>
        /\ caller.currentRetransmissionDelays = ExpectedDelays
        /\ Len(caller.currentRetransmissionDelays) = numberOfLinks + 1

\* A chain of two legs is walked with the one supplied delay at its interior
\* link end.
C22_Witness ==
    /\ call.kind = "multi" /\ pc = "returned" /\ numberOfLinks = 2
    /\ ~call.ancillarySettings.isNull /\ Supplied = << 1 >>
    /\ caller.currentRetransmissionDelays = << 0, 1, 0 >>


\* The running leg solve has made its first estimate and no pass yet.
Seeded == leg.pc = "loop" /\ leg.counter = 0

\* Both time slots of the running leg hold a value in the vector handed to it.
BothSlotsProvided ==
    /\ ~isnan(At(caller.linkEndsTimes, leg.multiLegTransmitterIndex))
    /\ ~isnan(At(caller.linkEndsTimes, leg.multiLegTransmitterIndex + 1))

\* C23: a single-leg solve is seeded with the two times handed to it exactly
\* when both of its slots are set, and with the input time at both ends when
\* either is unset; in both cases each end's state is its provider's at the
\* seed time, the cached correction is the sum of the providers' values at the
\* seed, and the first estimate is the ideal light time at the seed plus it.
C23_SeedFromGuessIffBothProvided ==
    Seeded =>
        /\ leg.warmStarted <=> BothSlotsProvided
        /\ BothSlotsProvided =>
              /\ leg.transmissionTime = At(caller.linkEndsTimes, leg.multiLegTransmitterIndex)
              /\ leg.receptionTime = At(caller.linkEndsTimes, leg.multiLegTransmitterIndex + 1)
        /\ ~BothSlotsProvided =>
              /\ leg.transmissionTime = leg.time
              /\ leg.receptionTime = leg.time
        /\ leg.transmitterState =
              StateFunction(RunningCalculator.stateFunctionOfTransmittingBody, leg.transmissionTime)
        /\ leg.receiverState =
              StateFunction(RunningCalculator.stateFunctionOfReceivingBody, leg.receptionTime)
        /\ RunningCalculator.currentCorrection =
              SumSeq([i \in 1..Len(RunningCalculator.correctionFunctions) |->
                         calculateLightTimeCorrection(RunningCalculator.correctionFunctions[i],
                             leg.transmitterState, leg.receiverState,
                             leg.transmissionTime, leg.receptionTime)])
        /\ leg.previousLightTimeCalculation =
              DivRound(fabs(leg.receiverState.pos - leg.transmitterState.pos), SpeedOfLight)
                  + RunningCalculator.currentCorrection

\* A solve is seeded at the input time although the transmission slot held a
\* guess: the reception slot was unset.
C23_Witness ==
    /\ call.kind = "direct" /\ Seeded
    /\ call.timesBefore = << 1, NaN >> /\ call.time = 0
    /\ leg.transmissionTime = 0 /\ leg.receptionTime = 0
    /\ RunningCalculator.stateFunctionOfTransmittingBody = MovingTransmitter


\* The criteria of the calculator the call is on, and a call on one leg alone.
CallCriteria == Calculator(call.calculator).lightTimeConvergenceCriteria

OneLegCall == call.kind \in {"single", "direct"}

\* C24: between resting link ends and with a positive tolerance, a single-leg
\* solve with no correction provider returns after exactly two passes of its
\* loop when iterateCorrections is off and after exactly one when it is on,
\* whatever its iteration limit and failure policy; with constant providers in
\* the list the passes are the same.
C24_PassesWithoutCorrections ==
    (/\ OneLegCall /\ Resting(Calculator(call.calculator)) /\ ConstantProviders
     /\ getAbsoluteTolerance(CallCriteria) > 0) =>
        /\ pc # "threw"
        /\ Running => leg.counter < (IF CallCriteria.iterateCorrections THEN 1 ELSE 2)
        /\ pc = "returned" =>
              solved[1].passes = (IF CallCriteria.iterateCorrections THEN 1 ELSE 2)

\* A solve with no provider, iterateCorrections off, a limit of zero passes and
\* the throwing policy has returned after two passes.
C24_Witness ==
    /\ call.kind = "single" /\ pc = "returned"
    /\ Resting(Calculator(call.calculator)) /\ Providers = << >>
    /\ ~CallCriteria.iterateCorrections
    /\ CallCriteria.maximumNumberOfIterations = 0
    /\ CallCriteria.failureHandling = "throw_exception"
    /\ getAbsoluteTolerance(CallCriteria) > 0
    /\ solved[1].passes = 2


\* The pass the running leg solve is about to make ends in a raise.
PassRaises == Running /\ LegPass(RunningCalculator, leg).thrown # "none"

\* C25: in a multi-leg solve, a pass of a leg that raises makes the multi-leg
\* solve raise the same error at once, with the caller's output vectors as
\* they were at the call and with only the legs before it in the walk solved;
\* after the raise no leg is invoked; a pass raises the convergence failure
\* only under the throwing policy, so a leg that accepts without warning never
\* makes the multi-leg solve raise.
C25_LegFailurePropagates ==
    [][call.kind = "multi" =>
        /\ PassRaises =>
              /\ pc' = "threw"
              /\ result' = [outcome |-> "threw", value |-> 0,
                            what |-> LegPass(RunningCalculator, leg).thrown]
              /\ result'.what = Unconverged
              /\ RunningCriteria.failureHandling = "throw_exception"
              /\ linkEndsTimesOutput' = call.timesBefore
              /\ linkEndsStatesOutput' = call.statesBefore
              /\ leg' = NoLeg /\ solved' = solved
              /\ Len(solved) < numberOfLinks
        /\ (Running /\ RunningCriteria.failureHandling = "accept_without_warning") =>
              pc' # "threw"
        /\ pc = "threw" => (pc' = "idle" /\ leg' = NoLeg)
     ]_vars

\* The second leg of the walk has raised the convergence failure; the first
\* had returned, and the outputs hold what they held at the call.
C25_Witness ==
    /\ call.kind = "multi" /\ pc = "threw" /\ result.what = Unconverged
    /\ Len(solved) = 1
    /\ linkEndsTimesOutput = StaleTimes /\ linkEndsStatesOutput = StaleStates


\* What the i-th leg solve that returned during the call returns when its
\* calculator, as it was before the call, is asked by itself.
SolvedAlone(i) ==
    calculateLightTimeWithLinkEndsStates(At(call.calculatorsBefore, solved[i].calculator),
                                         solved[i].time, solved[i].isTimeAtReception)

\* C26: in a multi-leg solve every leg runs under its own criteria and its own
\* provider list, which the solve leaves as they were: a leg starts with the
\* refresh flag its own iterateCorrections gives, and every leg solve that
\* returned did so with the light time and after the number of passes of the
\* solve of that leg's calculator by itself, whatever the criteria the chain
\* was constructed with and whatever the criteria of the other legs.
C26_LegsUnderOwnCriteria ==
    call.kind = "multi" =>
        /\ \A k \in 0..(numberOfLinks - 1) :
              /\ Calculator(k).lightTimeConvergenceCriteria =
                    At(call.calculatorsBefore, k).lightTimeConvergenceCriteria
              /\ Calculator(k).correctionFunctions = At(call.calculatorsBefore, k).correctionFunctions
        /\ Seeded => leg.updateLightTimeCorrections = RunningCriteria.iterateCorrections
        /\ \A i \in 1..Len(solved) :
              /\ SolvedAlone(i).returned
              /\ solved[i].lightTime = SolvedAlone(i).lightTime
              /\ solved[i].passes = SolvedAlone(i).frame.counter

\* Both legs of a chain constructed with the strict criteria have returned,
\* one under criteria that refresh and the other under criteria that do not.
C26_Witness ==
    /\ call.kind = "multi" /\ pc = "returned" /\ numberOfLinks = 2
    /\ multiLegConvergenceCriteria = StrictCriteria
    /\ Calculator(0).lightTimeConvergenceCriteria.iterateCorrections
    /\ ~Calculator(1).lightTimeConvergenceCriteria.iterateCorrections
    /\ Len(solved) = 2 /\ solved[1].passes # solved[2].passes


\* The estimate the pass the running solve is about to make computes, and
\* whether it is within the tolerance of the estimate the pass begins with.
NextEstimate == LegPass(RunningCalculator, leg).frame.newLightTimeCalculation

NextWithinTolerance ==
    fabs(NextEstimate - leg.previousLightTimeCalculation) < getAbsoluteTolerance(RunningCriteria)

\* The step ends the running solve by a raise, or by leaving the loop.
Raised == pc' = "threw" /\ result'.what = Unconverged

Accepted == leg'.pc = "loop" /\ leg'.isToleranceReached

\* C27: under accept_without_warning or throw_exception, a pass of a
\* single-leg solve that is not within the tolerance ends the solve exactly
\* when the pass counter, counted from zero, equals maxIterations, by an
\* acceptance or by a raise according to the policy; a pass within the
\* tolerance never raises, whatever the counter; so with a tolerance no pass
\* meets the loop is never running with a counter above maxIterations and ends
\* in its pass number maxIterations + 1.
C27_LimitTestedByEquality ==
    [][(Running /\ leg' # leg
            /\ RunningCriteria.failureHandling \in {"accept_without_warning", "throw_exception"}) =>
        /\ ~NextWithinTolerance =>
              /\ (Raised \/ Accepted) <=> leg.counter = RunningCriteria.maximumNumberOfIterations
              /\ Raised => RunningCriteria.failureHandling = "throw_exception"
              /\ Accepted => RunningCriteria.failureHandling = "accept_without_warning"
        /\ NextWithinTolerance => ~Raised
        /\ NonConvergenceForced(leg.calculator) =>
              /\ ~NextWithinTolerance
              /\ leg.counter <= RunningCriteria.maximumNumberOfIterations
     ]_vars

\* A solve whose tolerance no pass meets has been accepted after
\* MaxIterations + 1 passes.
C27_Witness ==
    /\ OneLegCall /\ pc = "returned" /\ NonConvergenceForced(call.calculator)
    /\ CallCriteria.failureHandling = "accept_without_warning"
    /\ CallCriteria.maximumNumberOfIterations = MaxIterations
    /\ solved[1].passes = MaxIterations + 1


\* getCurrentIdealLightTime( ) and getCurrentLightTimeCorrection( ) of the
\* calculator the call was on.
getCurrentIdealLightTime == Calculator(call.calculator).currentIdealLightTime

getCurrentLightTimeCorrection == Calculator(call.calculator).currentCorrection

\* C28: when a single-leg solve has returned, the returned light time is the
\* cached ideal light time plus the cached correction of its calculator, and
\* the cached ideal light time is the distance between the two returned
\* link-end positions divided by the speed of light.
C28_ReturnedIsCachedIdealPlusCorrection ==
    (OneLegCall /\ pc = "returned") =>
        /\ result.value = getCurrentIdealLightTime + getCurrentLightTimeCorrection
        /\ getCurrentIdealLightTime =
              DivRound(fabs(At(caller.linkEndsStates, 1).pos - At(caller.linkEndsStates, 0).pos),
                       SpeedOfLight)
        /\ call.kind = "single" =>
              getCurrentIdealLightTime =
                  DivRound(fabs(receiverStateOutput.pos - transmitterStateOutput.pos), SpeedOfLight)

\* A solve between moving ends with a correction has returned, on a
\* calculator whose cache held the values of an earlier solve at another time.
C28_Witness ==
    /\ call.kind = "single" /\ pc = "returned"
    /\ Calculator(call.calculator).stateFunctionOfReceivingBody = MovingReceiver
    /\ Providers = << ConstantCorrection(1) >>
    /\ At(call.calculatorsBefore, call.calculator).currentIdealLightTime
          \notin {Indeterminate, getCurrentIdealLightTime}
    /\ result.value = getCurrentIdealLightTime + 1


\* The distance of the light time from the difference of the two link-end
\* times, in the frame f of a leg solve.
Inconsistency(f) == fabs((f.receptionTime - f.transmissionTime) - f.newLightTimeCalculation)

\* C29: a pass of a single-leg solve that leaves the loop because the
\* tolerance is met (it is within the tolerance, or it is accepted at a
\* counter other than the limit) leaves a reception time, a transmission time
\* and a light time such that the difference of the two times is less than
\* the tolerance away from the light time; the return hands exactly these
\* times and this light time to the caller.
C29_ReturnedTimesConsistentWithinTolerance ==
    [][/\ (Running /\ Accepted
              /\ (NextWithinTolerance \/ leg.counter # RunningCriteria.maximumNumberOfIterations)) =>
            Inconsistency(leg') < getAbsoluteTolerance(RunningCriteria)
       /\ ReturnStep =>
            /\ At(caller'.linkEndsTimes, leg.multiLegTransmitterIndex + 1)
                  - At(caller'.linkEndsTimes, leg.multiLegTransmitterIndex)
                  = leg.receptionTime - leg.transmissionTime
            /\ solved'[Len(solved')].lightTime = leg.newLightTimeCalculation
            /\ OneLegCall => result'.value = leg.newLightTimeCalculation
      ]_vars

\* A solve has left its loop within a tolerance of two ticks with a light time
\* one tick away from the difference of its two times.
C29_Witness ==
    /\ OneLegCall /\ leg.pc = "loop" /\ leg.isToleranceReached
    /\ getAbsoluteTolerance(RunningCriteria) = 2
    /\ Inconsistency(leg) = 1


\* What of a calculator is configuration: the criteria and the provider list.
Configuration(calc) ==
    << calc.lightTimeConvergenceCriteria.iterateCorrections,
       calc.lightTimeConvergenceCriteria.maximumNumberOfIterations,
       calc.lightTimeConvergenceCriteria.absoluteTolerance,
       calc.lightTimeConvergenceCriteria.failureHandling,
       calc.correctionFunctions >>

\* C30: no step of a solve changes the criteria or the provider list of any
\* calculator, and every solve that starts, after whatever solves came before
\* on the same calculator, starts with the refresh flag equal to the
\* configured iterateCorrections.
C30_ConfigurationUnchanged ==
    [][/\ \A k \in 0..(numberOfLinks - 1) :
             Configuration(Calculator(k))' = Configuration(Calculator(k))
       /\ (leg.pc = "idle" /\ leg'.pc = "loop") =>
             leg'.updateLightTimeCorrections =
                 Calculator(leg'.calculator).lightTimeConvergenceCriteria.iterateCorrections
      ]_vars

\* A solve starts with the refresh off on a calculator whose earlier solve
\* had to return through the forced refresh: resting ends, iterateCorrections
\* off, a positive tolerance and a cache that holds that solve's values.
C30_Witness ==
    /\ Seeded /\ ~leg.updateLightTimeCorrections
    /\ ~RunningCriteria.iterateCorrections
    /\ getAbsoluteTolerance(RunningCriteria) > 0
    /\ Resting(RunningCalculator)
    /\ At(call.calculatorsBefore, leg.calculator).currentIdealLightTime # Indeterminate

====
